---- MODULE Spec2Model ----
(***************************************************************************)
(* A model of gdb-rsp: the RspConnection framing layer (src/low.rs), the   *)
(* hex decoder (src/util.rs) and the client read loop (src/client.rs).     *)
(* Bytes are integers 0..255; a byte string is a sequence of bytes.  The   *)
(* two channels of a connection are modelled the way the crate's own test  *)
(* builds them: the reader is a slice of pending input bytes, the writer   *)
(* is a vector that collects every byte written.                           *)
(***************************************************************************)
EXTENDS Integers, Sequences, FiniteSets, TLC

VARIABLES
    conn,   \* the RspConnection: a record of its fields
    op,     \* name of the operation performed by the last step
    arg,    \* the argument that operation was called with
    res,    \* its result: "Ok", an RspError name, or "panic" (failed assert!)
    ret,    \* the value returned inside Ok (<<>> when the result carries none)
    got,    \* the bytes the operation consumed from the read channel
    sent,   \* the bytes the operation appended to the write channel
    mark,   \* length of the write channel when the last packet was started
    body,   \* the bytes accepted by Write::write since the last start_*_packet
    dispatched,    \* the notification bodies handed to the notification handler
    non_stop,      \* GdbRspClient::non_stop
    require_acks   \* GdbRspClient::require_acks

vars == <<conn, op, arg, res, ret, got, sent, mark, body, dispatched, non_stop, require_acks>>

----------------------------------------------------------------------------
(* Bounds of the model. *)

\* Longest body a packet under construction may reach, and longest retransmit
\* buffer a body write may add to.
MaxBody == 4
\* A packet or an interrupt is started only while the write channel holds at
\* most this many bytes the peer has not taken yet.
MaxWire == 0
\* Largest value passed to set_maximum_retries.
MaxRetry == 2
\* Longest buffer passed to write_binary, and longest body it is added to.
MaxBinLen == 2
\* Longest string of the hex alphabet passed to decode_hex.
MaxHexLen == 3
\* Longest reply body passed to parse_simple_reply.
MaxReplyLen == 4
\* A client operation is started only while last_packet holds at most this
\* many bytes left over from requests that failed.
MaxStale == 1
\* Largest number of bytes a writer that is about to fail still takes.
MaxRoom == 2
\* Retry caps of the ack exchange stay below MaxAcks; the peer's runs of ack
\* bytes are up to one longer.
MaxAcks == 2
\* Longest body of a run-length encoded packet.
MaxRle == 3

----------------------------------------------------------------------------
(* Bytes the code names. *)

Dollar == 36
Percent == 37
Hash == 35
Star == 42
Plus == 43
Minus == 45
RBrace == 125
EscapeXor == 32
RleBias == 29
InterruptByte == 3
NotInPacket == 0

\* b"qTfP", the body of the crate's own test packet.
qTfP == <<113, 84, 102, 80>>

----------------------------------------------------------------------------
(* Arithmetic helpers. *)

\* u8::wrapping_add
WrappingAdd(a, b) == (a + b) % 256

RECURSIVE SumBytes(_)
\* The sum modulo 256 of a byte string, folded left to right.
SumBytes(s) == IF s = <<>> THEN 0 ELSE WrappingAdd(SumBytes(SubSeq(s, 1, Len(s) - 1)), s[Len(s)])

\* One lowercase hex digit, as "{:x}" prints it.
HexDigit(d) == IF d < 10 THEN 48 + d ELSE 87 + d

\* "{:02X}" in place of "{:02x}".
Hex2_upper(n) ==
    <<IF (n \div 16) < 10 THEN 48 + (n \div 16) ELSE 55 + (n \div 16),
      IF (n % 16) < 10 THEN 48 + (n % 16) ELSE 55 + (n % 16)>>

\* "{:02x}" of a u8.
Hex2(n) == <<HexDigit(n \div 16), HexDigit(n % 16)>>

\* a XOR 0x20 on a byte: bit 5 flipped.
Xor20(b) == IF (b \div EscapeXor) % 2 = 1 THEN b - EscapeXor ELSE b + EscapeXor

\* Option<T>: None is the empty sequence, Some(v) is <<v>>.
None == <<>>
Some(v) == <<v>>

----------------------------------------------------------------------------
(* util.rs *)

\* The digit test without its upper-case arm.
HexValue_lower(c) ==
    IF c >= 48 /\ c <= 57 THEN Some(c - 48)
    ELSE IF c >= 97 /\ c <= 102 THEN Some(c - 97 + 10)
    ELSE None

\* The value of one hex digit, or None.
HexValue(c) ==
    IF c >= 48 /\ c <= 57 THEN Some(c - 48)
    ELSE IF c >= 97 /\ c <= 102 THEN Some(c - 97 + 10)
    ELSE IF c >= 65 /\ c <= 70 THEN Some(c - 65 + 10)
    ELSE None

RECURSIVE decode_hex_from(_, _)
\* The loop of decode_hex.  result is a u64; the inputs of the model have at
\* most seven digits, so it stays far below 2^64.
decode_hex_from(seq, result) ==
    IF seq = <<>> THEN Some(result)
    ELSE IF HexValue(Head(seq)) = None THEN None
    ELSE decode_hex_from(Tail(seq), result * 16 + HexValue(Head(seq))[1])

decode_hex(seq) == decode_hex_from(seq, 0)

----------------------------------------------------------------------------
(* low.rs: Id and ProcessId *)

\* Id::Id(val), Id::All, Id::Any
Id(val) == [id |-> "Id", val |-> val]
Id_All == [id |-> "All", val |-> 0]
Id_Any == [id |-> "Any", val |-> 0]

\* ProcessId { pid, tid }
ProcessId(pid, tid) == [pid |-> pid, tid |-> tid]

----------------------------------------------------------------------------
(* low.rs: RspConnection *)

\* RspConnection::new
new(reader, writer, is_client) ==
    [ wchan |-> writer,
      rchan |-> reader,
      acking |-> TRUE,
      is_client |-> is_client,
      in_packet |-> NotInPacket,
      checksum |-> 0,
      last_packet |-> <<>>,
      max_retries |-> None,
      wroom |-> None ]

\* The outcome of a method: the connection afterwards, the result, the value.
Outcome(c, r, v) == [c |-> c, res |-> r, val |-> v]

\* RspConnection::set_maximum_retries
set_maximum_retries(c, max) == Outcome([c EXCEPT !.max_retries = max], "Ok", <<>>)

\* Write::write of the writer behind wchan.  wroom is the number of bytes the
\* writer still takes (None: any number, as a Vec<u8> does): it takes as much
\* of the buffer as it has room for, and fails once it has no room left.
wchan_write(c, buf) ==
    LET nbytes == IF c.wroom = None \/ Len(buf) <= c.wroom[1] THEN Len(buf) ELSE c.wroom[1]
    IN IF buf # <<>> /\ nbytes = 0 THEN [ok |-> FALSE, nbytes |-> 0, c |-> c]
       ELSE [ok |-> TRUE, nbytes |-> nbytes,
             c |-> [c EXCEPT !.wchan = @ \o SubSeq(buf, 1, nbytes),
                             !.wroom = IF @ = None THEN None ELSE Some(@[1] - nbytes)]]

\* Write::write for RspConnection: the bytes the writer took are added to the
\* checksum and, in acking mode, to last_packet.
write(c, buf) ==
    LET result == wchan_write(c, buf)
        accepted == SubSeq(buf, 1, result.nbytes)
    IN IF ~result.ok THEN result
       ELSE [result EXCEPT !.c = [result.c EXCEPT
                 !.checksum = WrappingAdd(@, SumBytes(accepted)),
                 !.last_packet = IF c.acking THEN @ \o accepted ELSE @]]

RECURSIVE write_all(_, _)
\* Write::write_all on the connection: write until the buffer is used up or a
\* write fails.
write_all(c, buf) ==
    IF buf = <<>> THEN Outcome(c, "Ok", <<>>)
    ELSE LET w == write(c, buf) IN
         IF ~w.ok \/ w.nbytes = 0 THEN Outcome(w.c, "IOError", <<>>)
         ELSE write_all(w.c, SubSeq(buf, w.nbytes + 1, Len(buf)))

RECURSIVE raw_write(_, _)
\* Write::write_all on wchan directly, bypassing the checksumming.
raw_write(c, bytes) ==
    IF bytes = <<>> THEN Outcome(c, "Ok", <<>>)
    ELSE LET w == wchan_write(c, bytes) IN
         IF ~w.ok \/ w.nbytes = 0 THEN Outcome(w.c, "IOError", <<>>)
         ELSE raw_write(w.c, SubSeq(bytes, w.nbytes + 1, Len(bytes)))

\* RspConnection::start_packet
start_packet(c) ==
    IF c.in_packet # NotInPacket THEN Outcome(c, "panic", <<>>)
    ELSE raw_write([c EXCEPT !.checksum = 0, !.in_packet = Dollar], <<Dollar>>)

\* RspConnection::start_notification_packet
start_notification_packet(c) ==
    IF c.in_packet # NotInPacket THEN Outcome(c, "panic", <<>>)
    ELSE raw_write([c EXCEPT !.checksum = 0, !.in_packet = Percent], <<Percent>>)

\* RspConnection::read_char
read_char(c) ==
    IF c.rchan = <<>> THEN [ok |-> FALSE, ch |-> 0, c |-> c]
    ELSE [ok |-> TRUE, ch |-> Head(c.rchan), c |-> [c EXCEPT !.rchan = Tail(@)]]

\* The "#XX" trailer of the packet being finished.
Trailer(c) == <<Hash>> \o Hex2(c.checksum)

\* Every byte but "-" taken as the acknowledgement.
IsAck_not_minus(ch) == ch # Minus

\* Any ack byte, "+" or "-", taken as the acknowledgement.
IsAck_any(ch) == ch = Plus \/ ch = Minus

\* The byte that acknowledges a packet.
IsAck(ch) == ch = Plus

\* count > max + 1 in place of count > max.
RetriesExceeded_late(count, max) == count > max + 1

\* count >= max in place of count > max.
RetriesExceeded_early(count, max) == count >= max

\* Has the packet been refused more often than max_retries allows?
RetriesExceeded(count, max) == count > max

RECURSIVE AckLoop(_, _, _)
\* The loop of finish_packet that reads acks and resends.
AckLoop(c, kind, count) ==
    LET r == read_char(c) IN
    IF ~r.ok THEN Outcome(r.c, "IOError", <<>>)
    ELSE IF IsAck(r.ch) THEN Outcome([r.c EXCEPT !.last_packet = <<>>], "Ok", <<>>)
    ELSE LET count1 == IF r.c.max_retries # None THEN count + 1 ELSE count IN
         IF r.c.max_retries # None /\ RetriesExceeded(count1, r.c.max_retries[1])
         THEN Outcome(r.c, "TooManyRetries", <<>>)
         ELSE LET w == raw_write(r.c, <<kind>> \o r.c.last_packet \o Trailer(r.c)) IN
              IF w.res # "Ok" THEN w ELSE AckLoop(w.c, kind, count1)

\* The ack loop run whatever the acking flag says.
FinishAcks_always(c) == TRUE

\* Does finish_packet run the ack loop?
FinishAcks(c) == c.acking

\* finish_packet closing the packet only once the trailer has been written.
finish_packet_late_close(c) ==
    IF c.in_packet = NotInPacket THEN Outcome(c, "panic", <<>>)
    ELSE LET kind == c.in_packet
             w == raw_write(c, Trailer(c))
             closed == [w.c EXCEPT !.in_packet = NotInPacket]
         IN IF w.res # "Ok" THEN w
            ELSE IF FinishAcks(closed) THEN AckLoop(closed, kind, 0) ELSE Outcome(closed, "Ok", <<>>)

\* RspConnection::finish_packet
finish_packet(c) ==
    IF c.in_packet = NotInPacket THEN Outcome(c, "panic", <<>>)
    ELSE LET kind == c.in_packet
             w == raw_write([c EXCEPT !.in_packet = NotInPacket], Trailer(c))
         IN IF w.res # "Ok" THEN w
            ELSE IF FinishAcks(w.c) THEN AckLoop(w.c, kind, 0) ELSE w

\* RspConnection::full_packet
full_packet(c, contents) ==
    LET s == start_packet(c) IN
    IF s.res # "Ok" THEN s
    ELSE LET w == write_all(s.c, contents) IN
         IF w.res # "Ok" THEN w ELSE finish_packet(w.c)

\* disable_acking flipping the flag instead of clearing it.
AckingAfterDisable_toggle(c) == ~c.acking

\* What disable_acking leaves in the acking flag.
AckingAfterDisable(c) == FALSE

\* RspConnection::disable_acking
disable_acking(c) == Outcome([c EXCEPT !.acking = AckingAfterDisable(c), !.last_packet = <<>>], "Ok", <<>>)

\* u32::swap_bytes
swap_bytes(val) ==
    (val % 256) * 2 ^ 24 + ((val \div 2 ^ 8) % 256) * 2 ^ 16
        + ((val \div 2 ^ 16) % 256) * 2 ^ 8 + (val \div 2 ^ 24)

\* u32::to_be: the identity on a big-endian target, a byte swap on a
\* little-endian one.
to_be(val, big_endian) == IF big_endian THEN val ELSE swap_bytes(val)

RECURSIVE LowerHex(_)
\* "{:x}" of an unsigned number: lowercase hex, no leading zeros.
LowerHex(n) == IF n < 16 THEN <<HexDigit(n)>> ELSE LowerHex(n \div 16) \o <<HexDigit(n % 16)>>

\* RspConnection::write_thread_id
write_thread_id(c, pid, big_endian) ==
    LET w0 == write_all(c, <<112>>) IN
    IF w0.res # "Ok" THEN w0
    ELSE IF pid.pid.id = "Id"
    THEN LET w1 == write_all(w0.c, LowerHex(to_be(pid.pid.val, big_endian)) \o <<46>>) IN
         IF w1.res # "Ok" THEN w1
         ELSE IF pid.tid.id = "Id"
         THEN write_all(w1.c, LowerHex(to_be(pid.tid.val, big_endian)))
         ELSE IF pid.tid.id = "All" THEN write_all(w1.c, <<45, 49>>)
         ELSE write_all(w1.c, <<48>>)
    ELSE IF pid.pid.id = "All" THEN write_all(w0.c, <<45, 49>>)
    ELSE write_all(w0.c, <<48>>)

\* The interrupt byte written through Write::write, as a body byte is.
interrupt_accumulated(c) ==
    IF c.in_packet # NotInPacket \/ ~c.is_client THEN Outcome(c, "panic", <<>>)
    ELSE write_all(c, <<InterruptByte>>)

\* RspConnection::interrupt
interrupt(c) ==
    IF c.in_packet # NotInPacket \/ ~c.is_client THEN Outcome(c, "panic", <<>>)
    ELSE raw_write(c, <<InterruptByte>>)


\* The bytes write_binary quotes: "$", "#", "}" and "*".
Reserved(b) == b \in {Dollar, Hash, RBrace, Star}

\* The buffer index write_binary remembers after meeting the reserved byte at
\* 0-based index i, having flushed (or not) the run of plain bytes before it.
NextLastIndex(i, last_index) == IF i > last_index THEN i + 1 ELSE last_index

RECURSIVE WriteBinaryLoop(_, _, _, _)
\* The for loop of write_binary at 0-based index i, and the write after it.
WriteBinaryLoop(c, buf, i, last_index) ==
    IF i = Len(buf)
    THEN IF Len(buf) >= last_index
         THEN write_all(c, SubSeq(buf, last_index + 1, Len(buf)))
         ELSE Outcome(c, "Ok", <<>>)
    ELSE IF Reserved(buf[i + 1])
    THEN LET w1 == IF i > last_index
                   THEN write_all(c, SubSeq(buf, last_index + 1, i))
                   ELSE Outcome(c, "Ok", <<>>)
             bytes == <<RBrace, Xor20(buf[i + 1])>>
             w2 == write_all(w1.c, bytes)
         IN IF w1.res # "Ok" THEN w1
            ELSE IF w2.res # "Ok" THEN w2
            ELSE WriteBinaryLoop(w2.c, buf, i + 1, NextLastIndex(i, last_index))
    ELSE WriteBinaryLoop(c, buf, i + 1, last_index)

\* RspConnection::write_binary
write_binary(c, buf) ==
    IF c.in_packet = NotInPacket THEN Outcome(c, "panic", <<>>)
    ELSE WriteBinaryLoop(c, buf, 0, 0)

RECURSIVE WriteHexLoop(_, _)
\* The for loop of write_hex: write!(self, "{:02x}", elt) for each element.
WriteHexLoop(c, data) ==
    IF data = <<>> THEN Outcome(c, "Ok", <<>>)
    ELSE LET w == write_all(c, Hex2(Head(data))) IN
         IF w.res # "Ok" THEN w ELSE WriteHexLoop(w.c, Tail(data))

\* RspConnection::write_hex
write_hex(c, data) ==
    IF c.in_packet = NotInPacket THEN Outcome(c, "panic", <<>>)
    ELSE WriteHexLoop(c, data)

\* The test read_packet makes on a byte to decide that a packet starts.
IsPacketStart(kind) == kind = Dollar /\ kind = Percent

RECURSIVE SkipToStart(_)
\* The first loop of read_packet: ignore anything until a packet start.
SkipToStart(c) ==
    LET r == read_char(c) IN
    IF ~r.ok THEN r
    ELSE IF IsPacketStart(r.ch) THEN r
    ELSE SkipToStart(r.c)

\* n copies of the byte b.
Repeat(b, n) == [i \in 1..n |-> b]

RECURSIVE ReadBody(_, _, _, _, _)
\* The second loop of read_packet: collect the contents up to "#".  The u8
\* subtraction repeat_ch - 29 panics when overflow checks are compiled in
\* (checked) and wraps otherwise.
ReadBody(c, contents, checksum, prev_ch, checked) ==
    LET r == read_char(c) IN
    IF ~r.ok THEN [res |-> "IOError", c |-> r.c, contents |-> contents, checksum |-> checksum]
    ELSE IF r.ch = Hash
    THEN [res |-> "Ok", c |-> r.c, contents |-> contents, checksum |-> checksum]
    ELSE IF r.ch = Star /\ r.c.is_client
    THEN LET r2 == read_char(r.c) IN
         IF ~r2.ok
         THEN [res |-> "IOError", c |-> r2.c, contents |-> contents, checksum |-> checksum]
         ELSE IF r2.ch < RleBias /\ checked
         THEN [res |-> "panic", c |-> r2.c, contents |-> contents, checksum |-> checksum]
         ELSE ReadBody(r2.c, contents \o Repeat(prev_ch, (r2.ch - RleBias) % 256),
                       WrappingAdd(WrappingAdd(checksum, Star), r2.ch), Dollar, checked)
    ELSE ReadBody(r.c, Append(contents, r.ch), WrappingAdd(checksum, r.ch), r.ch, checked)

\* The checksum read_packet compares with the one it computed.
TransmittedChecksum(n1, n2, checksum) ==
    IF decode_hex(<<n1, n2>>) # None THEN decode_hex(<<n1, n2>>)[1] % 256 ELSE 255 - checksum

\* RspConnection::read_packet
read_packet(c, checked) ==
    LET s == SkipToStart(c) IN
    IF ~s.ok THEN Outcome(s.c, "IOError", <<>>)
    ELSE
    LET packet_type == IF s.ch = Dollar THEN "Normal" ELSE "Notification"
        b == ReadBody(s.c, <<>>, 0, Dollar, checked)
    IN
    IF b.res # "Ok" THEN Outcome(b.c, b.res, <<>>)
    ELSE
    LET r1 == read_char(b.c) IN
    IF ~r1.ok THEN Outcome(r1.c, "IOError", <<>>)
    ELSE
    LET r2 == read_char(r1.c) IN
    IF ~r2.ok THEN Outcome(r2.c, "IOError", <<>>)
    ELSE IF r2.c.acking /\ packet_type = "Normal"
    THEN IF TransmittedChecksum(r1.ch, r2.ch, b.checksum) = b.checksum
         THEN LET w == raw_write(r2.c, <<Plus>>) IN
              IF w.res # "Ok" THEN w ELSE Outcome(w.c, "Ok", <<packet_type, b.contents>>)
         ELSE LET w == raw_write(r2.c, <<Minus>>) IN
              IF w.res # "Ok" THEN w ELSE Outcome(w.c, "InvalidChecksum", <<>>)
    ELSE Outcome(r2.c, "Ok", <<packet_type, b.contents>>)

----------------------------------------------------------------------------
(* parse.rs: the parsers, with the nom combinators they are built from.    *)
(* A parser returns Done with the rest of the input and a value, Error, or *)
(* Incomplete when the input ends too early.                               *)

Done(rest, val) == [kind |-> "Done", rest |-> rest, val |-> val]
Error == [kind |-> "Error", rest |-> <<>>, val |-> <<>>]
Incomplete == [kind |-> "Incomplete", rest |-> <<>>, val |-> <<>>]

\* tag!(t)
tag(input, t) ==
    IF Len(input) < Len(t) THEN Incomplete
    ELSE IF SubSeq(input, 1, Len(t)) = t THEN Done(SubSeq(input, Len(t) + 1, Len(input)), t)
    ELSE Error

\* eof
eof(input) == IF input = <<>> THEN Done(input, <<>>) ELSE Error

\* alt_complete!: the first alternative that is Done, else Error.
alt_complete(results) ==
    IF \A i \in 1..Len(results) : results[i].kind # "Done" THEN Error
    ELSE results[CHOOSE i \in 1..Len(results) :
                     /\ results[i].kind = "Done"
                     /\ \A j \in 1..(i - 1) : results[j].kind # "Done"]

\* chain!(r ~ ..): what follows runs on the rest and the value of a parser
\* that is Done; any other result ends the chain.
chain(r, K(_, _)) == IF r.kind # "Done" THEN r ELSE K(r.rest, r.val)

\* map!(r, F), value!(v, r)
map(r, F(_)) == IF r.kind # "Done" THEN r ELSE Done(r.rest, F(r.val))

\* chain!(tag!(t) ~ v: P, || Wrap(v))
tag_then(input, t, P(_), Wrap(_)) ==
    chain(tag(input, t), LAMBDA rest, x : map(P(rest), Wrap))

\* parse_2_hex: take!(2), then decode_hex, then `as u8`.
parse_2_hex(input) ==
    IF Len(input) < 2 THEN Incomplete
    ELSE IF decode_hex(SubSeq(input, 1, 2)) = None THEN Error
    ELSE Done(SubSeq(input, 3, Len(input)), decode_hex(SubSeq(input, 1, 2))[1] % 256)

\* One turn of the loop of many1! and fold_many1!: an item that fails ends the
\* loop with what it has, an item cut short makes the whole Incomplete.
loop_step(r, sofar, Go(_, _)) ==
    IF r.kind = "Error" THEN sofar
    ELSE IF r.kind = "Incomplete" THEN Incomplete
    ELSE Go(r.rest, r.val)

RECURSIVE fold_many1_loop(_, _)
\* The loop of fold_many1!(parse_2_hex, ..) after its first item: it ends at
\* the end of the input or at an item that fails, and is Incomplete when one
\* byte is left over.  acc is a u64; the inputs keep it far below 2^64.
fold_many1_loop(input, acc) ==
    IF input = <<>> THEN Done(input, acc)
    ELSE loop_step(parse_2_hex(input), Done(input, acc),
                   LAMBDA rest, v : fold_many1_loop(rest, acc * 256 + v))

\* parse_hex_number
parse_hex_number(input) ==
    chain(parse_2_hex(input), LAMBDA rest, v : fold_many1_loop(rest, 0 * 256 + v))

RECURSIVE many1_loop(_, _)
\* The loop of many1!(parse_2_hex) after its first item.
many1_loop(input, acc) ==
    IF input = <<>> THEN Done(input, acc)
    ELSE loop_step(parse_2_hex(input), Done(input, acc),
                   LAMBDA rest, v : many1_loop(rest, Append(acc, v)))

\* parse_hex_data
parse_hex_data(input) ==
    chain(parse_2_hex(input), LAMBDA rest, v : many1_loop(rest, <<v>>))

\* parse_error: "E", two hex digits, end of input.
parse_error(input) ==
    chain(tag_then(input, <<69>>, parse_2_hex, LAMBDA v : v),
          LAMBDA rest, e : map(eof(rest), LAMBDA x : e))

\* parse_ok: "OK", end of input.
parse_ok(input) == tag_then(input, <<79, 75>>, eof, LAMBDA v : v)

\* ClientResult<()>: Ok(()) and the values of ClientError.
Ok == <<"Ok">>
ErrorPacket(e) == <<"ErrorPacket", e>>
Unsupported == <<"Unsupported">>
Unrecognized == <<"Unrecognized">>

\* From<RspError> for ClientError: the error wrapped in ClientError::RspError.
RspError(t) ==
    CASE t = "IOError" -> "RspError(IOError)"
      [] t = "InvalidChecksum" -> "RspError(InvalidChecksum)"
      [] t = "TooManyRetries" -> "RspError(TooManyRetries)"
      [] t = "HandlerError" -> "RspError(HandlerError)"

\* parse_simple_reply
parse_simple_reply(input) ==
    alt_complete(<<map(parse_ok(input), LAMBDA v : Ok),
                   map(parse_error(input), ErrorPacket),
                   map(eof(input), LAMBDA v : Unsupported)>>)

\* parse_thread_id_element; `val as u32` keeps the values of the model.
parse_thread_id_element(input) ==
    alt_complete(<<map(tag(input, <<48>>), LAMBDA v : Id_Any),
                   map(tag(input, <<45, 49>>), LAMBDA v : Id_All),
                   map(parse_hex_number(input), Id)>>)

\* The second alternative of parse_thread_id: "p", pid, ".", tid.
parse_thread_id_p(input) ==
    chain(tag_then(input, <<112>>, parse_thread_id_element, LAMBDA v : v),
          LAMBDA rest, pid :
              tag_then(rest, <<46>>, parse_thread_id_element, LAMBDA tid : ProcessId(pid, tid)))

\* parse_thread_id
parse_thread_id(input) ==
    alt_complete(<<map(parse_thread_id_element(input), LAMBDA v : ProcessId(v, Id_Any)),
                   parse_thread_id_p(input)>>)

\* The values of StopReplyValue.
Register(regno, value) == <<"Register", regno, value>>
Thread(id) == <<"Thread", id>>
Core(core) == <<"Core", core>>
Watch(addr) == <<"Watch", addr>>
Awatch(addr) == <<"Awatch", addr>>
Rwatch(addr) == <<"Rwatch", addr>>
SyscallEntry(call) == <<"SyscallEntry", call>>
SyscallReturn(call) == <<"SyscallReturn", call>>
LibraryChange == <<"LibraryChange">>
ReplayLog(result) == <<"ReplayLog", result>>
SoftwareBreak == <<"SoftwareBreak">>
HardwareBreak == <<"HardwareBreak">>
Fork(pid) == <<"Fork", pid>>
VFork(pid) == <<"VFork", pid>>
VForkDone == <<"VForkDone">>
Exec(path) == <<"Exec", path>>
Create == <<"Create">>

\* parse_t_register: a register number, ":", hex data.
parse_t_register(input) ==
    chain(parse_hex_number(input),
          LAMBDA rest, regno :
              tag_then(rest, <<58>>, parse_hex_data, LAMBDA value : Register(regno, value)))

\* The index of the first ";" of the input, or 0.
FirstSemi(input) ==
    IF \A i \in 1..Len(input) : input[i] # 59 THEN 0
    ELSE CHOOSE i \in 1..Len(input) : input[i] = 59 /\ \A j \in 1..(i - 1) : input[j] # 59

\* skip_until_semi: up to the next ";", or the end of the input when it is
\* already there.
skip_until_semi(input) ==
    alt_complete(<<IF FirstSemi(input) = 0 THEN Incomplete
                   ELSE Done(SubSeq(input, FirstSemi(input), Len(input)),
                             SubSeq(input, 1, FirstSemi(input) - 1)),
                   eof(input)>>)

\* The alternatives of parse_t_replaylog after its tag.
replaylog_value(input) ==
    alt_complete(<<map(tag(input, <<98, 101, 103, 105, 110>>), LAMBDA v : TRUE),
                   map(tag(input, <<101, 110, 100>>), LAMBDA v : FALSE)>>)

\* value!(v, tag!(t))
tag_value(input, t, v) == map(tag(input, t), LAMBDA x : v)

\* parse_any_t_pair: the seventeen kinds of pair, tried in the order written.
parse_any_t_pair(input) ==
    alt_complete(<<
        parse_t_register(input),
        tag_then(input, <<116, 104, 114, 101, 97, 100, 58>>, parse_thread_id, Thread),
        tag_then(input, <<99, 111, 114, 101, 58>>, parse_hex_number, Core),
        tag_then(input, <<119, 97, 116, 99, 104, 58>>, parse_hex_number, Watch),
        tag_then(input, <<97, 119, 97, 116, 99, 104, 58>>, parse_hex_number, Awatch),
        tag_then(input, <<114, 119, 97, 116, 99, 104, 58>>, parse_hex_number, Rwatch),
        tag_then(input, <<115, 121, 115, 99, 97, 108, 108, 95, 101, 110, 116, 114, 121, 58>>, parse_hex_number, SyscallEntry),
        tag_then(input, <<115, 121, 115, 99, 97, 108, 108, 95, 114, 101, 116, 117, 114, 110, 58>>, parse_hex_number, SyscallReturn),
        tag_then(input, <<108, 105, 98, 114, 97, 114, 121, 58>>, skip_until_semi, LAMBDA v : LibraryChange),
        tag_then(input, <<114, 101, 112, 108, 97, 121, 108, 111, 103, 58>>, replaylog_value, ReplayLog),
        tag_value(input, <<115, 119, 98, 114, 101, 97, 107, 58>>, SoftwareBreak),
        tag_value(input, <<104, 119, 98, 114, 101, 97, 107, 58>>, HardwareBreak),
        tag_then(input, <<102, 111, 114, 107, 58>>, parse_thread_id, Fork),
        tag_then(input, <<118, 102, 111, 114, 107, 58>>, parse_thread_id, VFork),
        tag_then(input, <<118, 102, 111, 114, 107, 100, 111, 110, 101, 58>>, skip_until_semi, LAMBDA v : VForkDone),
        tag_then(input, <<101, 120, 101, 99, 58>>, parse_hex_data, Exec),
        tag_then(input, <<99, 114, 101, 97, 116, 101, 58>>, skip_until_semi, LAMBDA v : Create)>>)

\* One step of separated_nonempty_list!: a separator or an item that is not
\* Done ends the list with what it has.
or_stop(r, sofar, Go(_, _)) == IF r.kind # "Done" THEN sofar ELSE Go(r.rest, r.val)

RECURSIVE separated_loop(_, _)
\* The loop of separated_nonempty_list!(tag!(";"), parse_any_t_pair) after
\* its first item: it stops at the first separator or item that is not Done.
separated_loop(input, res_) ==
    or_stop(tag(input, <<59>>), Done(input, res_),
            LAMBDA i, x :
                or_stop(parse_any_t_pair(i), Done(input, res_),
                        LAMBDA rest, v :
                            IF Len(rest) = Len(i) THEN Done(input, res_)
                            ELSE separated_loop(rest, Append(res_, v))))

\* separated_nonempty_list!(tag!(";"), parse_any_t_pair)
separated_nonempty_list(input) ==
    chain(parse_any_t_pair(input),
          LAMBDA rest, v :
              IF Len(rest) = Len(input) THEN Error ELSE separated_loop(rest, <<v>>))

\* parse_stop_signal_full: "T", the signal, the pairs, end of input.
parse_stop_signal_full(input) ==
    chain(tag_then(input, <<84>>, parse_2_hex, LAMBDA v : v),
          LAMBDA rest, signo :
              chain(separated_nonempty_list(rest),
                    LAMBDA rest2, values :
                        map(eof(rest2), LAMBDA x : <<signo, values>>)))

----------------------------------------------------------------------------
(* client.rs: GdbRspClient *)

\* GdbRspClient::dispatch_notification: the user's handler gets the contents
\* and either lets the read go on or fails.
dispatch_notification(disp, contents, handler_fails) ==
    [disp |-> Append(disp, contents), res |-> IF handler_fails THEN "HandlerError" ELSE "Ok"]

RECURSIVE read_packet_with_retries(_, _, _, _)
\* The loop of read_packet_with_retries after the handler returned d for the
\* notification read with connection c.
after_dispatch(c, d, handler_fails, checked) ==
    IF d.res # "Ok" THEN [c |-> c, res |-> d.res, val |-> <<>>, disp |-> d.disp]
    ELSE read_packet_with_retries(c, d.disp, handler_fails, checked)

\* One turn of the loop of read_packet_with_retries, r being what its
\* read_packet returned.
retry_turn(r, disp, handler_fails, checked) ==
    IF r.res = "Ok" /\ r.val[1] = "Notification"
    THEN after_dispatch(r.c, dispatch_notification(disp, r.val[2], handler_fails),
                        handler_fails, checked)
    ELSE IF r.res = "Ok"
    THEN [c |-> r.c, res |-> "Ok", val |-> r.val[2], disp |-> disp]
    ELSE IF r.res = "InvalidChecksum"
    THEN read_packet_with_retries(r.c, disp, handler_fails, checked)
    ELSE [c |-> r.c, res |-> r.res, val |-> <<>>, disp |-> disp]

\* GdbRspClient::read_packet_with_retries; disp collects the dispatched
\* notifications.
read_packet_with_retries(c, disp, handler_fails, checked) ==
    retry_turn(read_packet(c, checked), disp, handler_fails, checked)

\* GdbRspClient::new: the fields of the client that the operations use.
GdbRspClient(reader, writer) ==
    [conn |-> new(reader, writer, TRUE), non_stop |-> FALSE, require_acks |-> FALSE]

\* The outcome of a client method: the client afterwards, the result, the
\* value it carries and the notifications dispatched.
ClientOutcome(cl, r, v, d) == [cl |-> cl, res |-> r, val |-> v, disp |-> d]

\* try! on an RspResult inside a method that returns a ClientResult: Ok goes
\* on, an error is converted with From<RspError>, a panic is a panic.
ClientResult(r) == IF r \in {"Ok", "panic"} THEN r ELSE RspError(r)

\* try!(first); then(..): the second call is made only when the first is Ok.
try_then(o, then(_)) == IF o.res # "Ok" THEN o ELSE then(o.c)

\* The method returns after sending, with the result of the send.
Sent(cl, s, h) == ClientOutcome([cl EXCEPT !.conn = s.c], ClientResult(s.res), <<>>, h.disp)

\* try!(send) in a method that goes on: an error of the send is returned,
\* else the method goes on with the connection as the send left it.
after_send(cl, s, h, then(_)) ==
    IF s.res # "Ok" THEN Sent(cl, s, h) ELSE then([cl EXCEPT !.conn = s.c])

\* A send whose result is dropped: the method goes on whatever it was.
ignore_result(cl, s, h, then(_)) ==
    IF s.res = "panic" THEN Sent(cl, s, h) ELSE then([cl EXCEPT !.conn = s.c])

\* What follows a result that is Ok; any other result is returned.
on_ok(r, F(_)) == IF r.res = "Ok" THEN F(r) ELSE r

\* The result of a reply parser as the method returns it: a reply that does
\* not parse is Unrecognized.
parsed_reply(cl, p, disp) ==
    IF p.kind = "Done" THEN ClientOutcome(cl, p.val[1], Tail(p.val), disp)
    ELSE ClientOutcome(cl, "Unrecognized", <<>>, disp)

\* try!(read_packet_with_retries), then the parser P on the reply.
read_reply(cl, r, P(_)) ==
    IF r.res # "Ok"
    THEN ClientOutcome([cl EXCEPT !.conn = r.c], ClientResult(r.res), <<>>, r.disp)
    ELSE parsed_reply([cl EXCEPT !.conn = r.c], P(r.val), r.disp)

\* GdbRspClient::read_simple_reply; h is the notification handler and the
\* build: [disp, handler_fails, checked].
read_simple_reply(cl, h) ==
    read_reply(cl, read_packet_with_retries(cl.conn, h.disp, h.handler_fails, h.checked),
               parse_simple_reply)

\* b"QStartNoAckMode"
QStartNoAckMode == <<81, 83, 116, 97, 114, 116, 78, 111, 65, 99, 107, 77, 111, 100, 101>>

\* GdbRspClient::disable_acking: the result of full_packet is dropped.
client_disable_acking(cl, h) ==
    ignore_result(cl, full_packet(cl.conn, QStartNoAckMode), h,
        LAMBDA cl1 :
            on_ok(read_simple_reply(cl1, h),
                  LAMBDA r : ClientOutcome([r.cl EXCEPT !.conn = disable_acking(r.cl.conn).c],
                                           "Ok", <<>>, r.disp)))

\* GdbRspClient::extended_mode
extended_mode(cl, h) ==
    after_send(cl, full_packet(cl.conn, <<33>>), h, LAMBDA cl1 : read_simple_reply(cl1, h))

\* A method that returns (): the result of what it called is dropped.
returns_unit(d) == ClientOutcome(d.cl, IF d.res = "panic" THEN "panic" ELSE "Ok", <<>>, d.disp)

\* GdbRspClient::startup: the result of disable_acking is dropped.
startup(cl, h) ==
    IF ~cl.require_acks
    THEN returns_unit(client_disable_acking(cl, h))
    ELSE ClientOutcome(cl, "Ok", <<>>, h.disp)

\* GdbRspClient::detach
detach(cl, pid, big_endian, h) ==
    after_send(cl,
               IF pid # None
               THEN try_then(try_then(try_then(start_packet(cl.conn),
                        LAMBDA c : write_all(c, <<68, 59>>)),
                        LAMBDA c : write_thread_id(c, pid[1], big_endian)),
                        LAMBDA c : finish_packet(c))
               ELSE full_packet(cl.conn, <<68>>),
               h, LAMBDA cl1 : read_simple_reply(cl1, h))

\* GdbRspClient::query_stop_reason: no reply is read.
query_stop_reason(cl, h) == Sent(cl, full_packet(cl.conn, <<63>>), h)

\* parse_memory
parse_memory(input) ==
    alt_complete(<<map(parse_error(input), ErrorPacket),
                   map(parse_hex_data(input), LAMBDA data : <<"Ok", data>>),
                   map(eof(input), LAMBDA v : Unsupported)>>)

\* GdbRspClient::read_memory
read_memory(cl, addr, length, h) ==
    after_send(cl,
               try_then(try_then(start_packet(cl.conn),
                   LAMBDA c : write_all(c, <<109>> \o LowerHex(addr) \o <<44>> \o LowerHex(length))),
                   LAMBDA c : finish_packet(c)),
               h,
               LAMBDA cl1 :
                   read_reply(cl1,
                              read_packet_with_retries(cl1.conn, h.disp, h.handler_fails, h.checked),
                              parse_memory))

\* GdbRspClient::read_register: no reply is read.
read_register(cl, register, h) ==
    Sent(cl, try_then(try_then(start_packet(cl.conn),
                 LAMBDA c : write_all(c, <<112>> \o LowerHex(register) \o <<61>>)),
                 LAMBDA c : finish_packet(c)), h)

\* GdbRspClient::vpacket: no reply is read.
vpacket(cl, cmd, pid, big_endian, h) ==
    Sent(cl, try_then(try_then(try_then(start_packet(cl.conn),
                 LAMBDA c : write_all(c, cmd)),
                 LAMBDA c : write_thread_id(c, pid, big_endian)),
                 LAMBDA c : finish_packet(c)), h)

\* GdbRspClient::attach
attach(cl, pid, big_endian, h) == vpacket(cl, <<118, 65, 116, 116, 97, 99, 104, 59>>, pid, big_endian, h)

\* GdbRspClient::kill
kill(cl, pid, big_endian, h) == vpacket(cl, <<118, 75, 105, 108, 108, 59>>, pid, big_endian, h)

RECURSIVE Decimal(_)
\* "{}" of an unsigned number.
Decimal(n) == IF n < 10 THEN <<48 + n>> ELSE Decimal(n \div 10) \o <<48 + (n % 10)>>

\* GdbRspClient::set_or_clear_breakpoint
set_or_clear_breakpoint(cl, cmd, addr, kind, h) ==
    after_send(cl,
               try_then(try_then(try_then(start_packet(cl.conn),
                   LAMBDA c : write_all(c, cmd)),
                   LAMBDA c : write_all(c, <<44>> \o LowerHex(addr) \o <<44>>
                                           \o Decimal(IF kind # None THEN kind[1] ELSE 0))),
                   LAMBDA c : finish_packet(c)),
               h, LAMBDA cl1 : read_simple_reply(cl1, h))

\* GdbRspClient::set_software_breakpoint
set_software_breakpoint(cl, addr, kind, h) == set_or_clear_breakpoint(cl, <<90, 48>>, addr, kind, h)

\* The request of set_nonstop: b"QNonStop:1" or b"QNonStop:0".
QNonStop(state) == IF state THEN <<81, 78, 111, 110, 83, 116, 111, 112, 58, 49>> ELSE <<81, 78, 111, 110, 83, 116, 111, 112, 58, 48>>

\* GdbRspClient::set_nonstop
set_nonstop(cl, state, h) ==
    after_send(cl, full_packet(cl.conn, QNonStop(state)), h,
        LAMBDA cl1 :
            on_ok(read_simple_reply(cl1, h),
                  LAMBDA result : [result EXCEPT !.cl = [result.cl EXCEPT !.non_stop = state]]))

----------------------------------------------------------------------------
(* The inputs of the operations. *)

\* Every byte string of at most n bytes drawn from S.
SeqsUpTo(S, n) == UNION {[1..m -> S] : m \in 0..n}

\* Buffers passed to write_all and full_packet.
WriteBufs == {<<97>>, qTfP}

\* Buffers passed to write_binary: every mix of "#", "*" and "a".
BinBufs == SeqsUpTo({Hash, Star, 97}, MaxBinLen)

\* Arguments of set_maximum_retries.
RetryCaps == {None} \cup {Some(m) : m \in 0..MaxRetry}

\* "$E01#a6", the same body with a wrong checksum, and as a notification.
E01 == <<69, 48, 49>>
GoodFrame == <<Dollar>> \o E01 \o <<Hash, 97, 54>>
BadFrame == <<Dollar>> \o E01 \o <<Hash, 48, 48>>
NotifFrame == <<Percent>> \o E01 \o <<Hash, 97, 54>>

\* Bytes passed to decode_hex: hex digits of both cases and the bytes next to
\* each range of digits ("/", ":", "@", "G", "`", "g"), and "h", "i".
HexAlphabet == {48, 49, 57, 65, 70, 97, 102, 47, 58, 64, 71, 96, 103, 104, 105}

\* The inputs of the crate's own test: b"000a", b"f01", b"hi".
HexTests == {<<48, 48, 48, 97>>, <<102, 48, 49>>, <<104, 105>>}

\* Inputs of decode_hex.
HexInputs == SeqsUpTo(HexAlphabet, MaxHexLen) \cup HexTests

\* Process and thread ids: 1, 0x10, 0x10000010 (which reads the same with its
\* bytes swapped), All and Any.
Ids == {Id(1), Id(16), Id(268435472), Id_All, Id_Any}

\* Arguments of write_thread_id.
ProcessIds == {ProcessId(pid, tid) : pid \in Ids, tid \in Ids}

\* Bytes of reply bodies: "O", "K", "E", "0", "a", "F", "g".
ReplyAlphabet == {79, 75, 69, 48, 97, 70, 103}

\* Inputs of parse_simple_reply.
ReplyInputs == SeqsUpTo(ReplyAlphabet, MaxReplyLen)

\* b"T05thread:p1.1;core:0;swbreak:"
T05Example == <<84, 48, 53, 116, 104, 114, 101, 97, 100, 58, 112, 49, 46, 49, 59, 99, 111, 114, 101, 58, 48, 59, 115, 119, 98, 114, 101, 97, 107, 58>>

\* Inputs of parse_stop_signal_full: the example, the same with two-digit
\* values, and replies made of other pairs.
StopInputs ==
    { T05Example,
      <<84, 48, 53, 116, 104, 114, 101, 97, 100, 58, 112, 49, 48, 46, 49, 48, 59, 99, 111, 114, 101, 58, 48, 48, 59, 115, 119, 98, 114, 101, 97, 107, 58>>,
      <<84, 48, 53, 116, 104, 114, 101, 97, 100, 58, 112, 48, 49, 46, 48, 49, 59, 99, 111, 114, 101, 58, 48, 48, 59, 115, 119, 98, 114, 101, 97, 107, 58>>,
      <<84, 48, 53, 116, 104, 114, 101, 97, 100, 58, 49, 48, 59, 99, 111, 114, 101, 58, 48, 97>>,
      <<84, 48, 53, 48, 54, 58, 48, 97, 48, 98, 59, 104, 119, 98, 114, 101, 97, 107, 58>>,
      <<84, 48, 53, 119, 97, 116, 99, 104, 58, 49, 48, 59, 108, 105, 98, 114, 97, 114, 121, 58, 59, 114, 101, 112, 108, 97, 121, 108, 111, 103, 58, 101, 110, 100>>,
      <<84, 48, 53, 97, 119, 97, 116, 99, 104, 58, 49, 48, 59, 114, 119, 97, 116, 99, 104, 58, 49, 48, 59, 114, 101, 112, 108, 97, 121, 108, 111, 103, 58, 98, 101, 103, 105, 110, 59, 108, 105, 98, 114, 97, 114, 121, 58, 120>>,
      <<84, 48, 53, 115, 121, 115, 99, 97, 108, 108, 95, 101, 110, 116, 114, 121, 58, 49, 48, 59, 115, 121, 115, 99, 97, 108, 108, 95, 114, 101, 116, 117, 114, 110, 58, 49, 48>>,
      <<84, 48, 53, 102, 111, 114, 107, 58, 112, 49, 48, 46, 50, 48, 59, 118, 102, 111, 114, 107, 58, 112, 45, 49, 46, 48, 59, 118, 102, 111, 114, 107, 100, 111, 110, 101, 58, 59, 101, 120, 101, 99, 58, 50, 102, 54, 49, 59, 99, 114, 101, 97, 116, 101, 58>>,
      <<84, 48, 53, 115, 119, 98, 114, 101, 97, 107, 58>>,
      <<84, 48, 53, 115, 119, 98, 114, 101, 97, 107, 58, 59>>,
      <<84, 53, 115, 119, 98, 114, 101, 97, 107, 58>>,
      <<84, 48, 53>>,
      <<83, 48, 53>> }

\* A Normal packet with the body given, as the peer frames it.
ReplyFrame(contents) == <<Dollar>> \o contents \o <<Hash>> \o Hex2(SumBytes(contents))

\* The reply "$OK#9a".
OKFrame == ReplyFrame(<<79, 75>>)

\* What the server sends after a request: an ack alone; an ack and a reply
\* ("OK", "E01", the empty reply, "OKx"); a refusal, an ack and a reply; an ack,
\* a notification and a reply; a reply without an ack.
ClientBursts ==
    { <<Plus>>,
      <<Plus>> \o OKFrame,
      <<Plus>> \o ReplyFrame(E01),
      <<Plus>> \o ReplyFrame(<<>>),
      <<Plus>> \o ReplyFrame(<<79, 75, 120>>),
      <<Minus, Plus>> \o OKFrame,
      <<Plus>> \o NotifFrame \o OKFrame,
      OKFrame }

\* How many bytes the writer takes before it fails; None: it does not fail.
Rooms == {None} \cup {Some(n) : n \in 0..MaxRoom}

\* Arguments of attach, kill and detach.
ClientPids == {ProcessId(Id(1), Id(1)), ProcessId(Id(16), Id_Any)}

\* The acks the peer sends in one burst.
AckBursts == {Repeat(Minus, k) \o t : k \in 0..(MaxRetry + 1), t \in {<<>>, <<Plus>>}} \ {<<>>}

----------------------------------------------------------------------------
(* The state machine: one connection, driven by its owner and fed by the   *)
(* peer.                                                                   *)

Init ==
    /\ \E is_client \in BOOLEAN : conn = new(<<>>, <<>>, is_client)
    /\ op = "new"
    /\ arg = <<>>
    /\ res = "Ok"
    /\ ret = <<>>
    /\ got = <<>>
    /\ sent = <<>>
    /\ mark = 0
    /\ body = <<>>
    /\ dispatched = <<>>
    /\ non_stop = FALSE
    /\ require_acks = FALSE

\* A failed assert! aborts the program.
Alive == res # "panic"

\* The step in which operation name, called with a, has outcome o.
Do(name, a, o) ==
    /\ conn' = o.c
    /\ op' = name
    /\ arg' = a
    /\ res' = o.res
    /\ ret' = o.val
    /\ got' = SubSeq(conn.rchan, 1, Len(conn.rchan) - Len(o.c.rchan))
    /\ sent' = SubSeq(o.c.wchan, Len(conn.wchan) + 1, Len(o.c.wchan))

\* A step of the peer or of the wire, which is no operation of the connection.
Env(name, a) ==
    /\ op' = name
    /\ arg' = a
    /\ res' = "Ok"
    /\ ret' = <<>>
    /\ got' = <<>>
    /\ sent' = <<>>

SetMaximumRetries(caps) ==
    \E max \in caps :
        /\ Alive
        /\ Do("set_maximum_retries", max, set_maximum_retries(conn, max))
        /\ UNCHANGED <<mark, body, dispatched, non_stop, require_acks>>

StartPacket ==
    /\ Alive
    /\ Len(conn.wchan) <= MaxWire
    /\ Do("start_packet", <<>>, start_packet(conn))
    /\ mark' = IF res' # "panic" THEN Len(conn.wchan) ELSE mark
    /\ body' = IF res' # "panic" THEN <<>> ELSE body
    /\ UNCHANGED <<dispatched, non_stop, require_acks>>

StartNotificationPacket ==
    /\ Alive
    /\ Len(conn.wchan) <= MaxWire
    /\ Do("start_notification_packet", <<>>, start_notification_packet(conn))
    /\ mark' = IF res' # "panic" THEN Len(conn.wchan) ELSE mark
    /\ body' = IF res' # "panic" THEN <<>> ELSE body
    /\ UNCHANGED <<dispatched, non_stop, require_acks>>

WriteAll(bufs) ==
    \E buf \in bufs :
        /\ Alive
        /\ Len(body) + Len(buf) <= MaxBody
        /\ Len(conn.last_packet) + Len(buf) <= MaxBody
        /\ Do("write_all", buf, write_all(conn, buf))
        /\ body' = body \o sent'
        /\ UNCHANGED <<mark, dispatched, non_stop, require_acks>>

WriteBinary(bufs) ==
    \E buf \in bufs :
        /\ Alive
        /\ Len(body) + Len(buf) <= MaxBinLen
        /\ Len(conn.last_packet) + Len(buf) <= MaxBody
        /\ Do("write_binary", buf, write_binary(conn, buf))
        /\ body' = body \o sent'
        /\ UNCHANGED <<mark, dispatched, non_stop, require_acks>>

WriteHex(datas) ==
    \E data \in datas :
        /\ Alive
        /\ Len(body) + 2 * Len(data) <= MaxBinLen
        /\ Len(conn.last_packet) + 2 * Len(data) <= MaxBody
        /\ Do("write_hex", data, write_hex(conn, data))
        /\ body' = body \o sent'
        /\ UNCHANGED <<mark, dispatched, non_stop, require_acks>>

\* write_thread_id with an All or Any pid, which writes "p-1" or "p0".
WriteShortThreadId(pids) ==
    \E pid \in pids, big_endian \in BOOLEAN :
        /\ Alive
        /\ pid.pid.id # "Id"
        /\ Len(body) + (IF pid.pid.id = "All" THEN 3 ELSE 2) <= MaxBinLen
        /\ Len(conn.last_packet) + 3 <= MaxBody
        /\ Do("write_thread_id", pid, write_thread_id(conn, pid, big_endian))
        /\ body' = body \o sent'
        /\ UNCHANGED <<mark, dispatched, non_stop, require_acks>>

FinishPacket ==
    /\ Alive
    /\ Do("finish_packet", <<>>, finish_packet(conn))
    /\ UNCHANGED <<mark, body, dispatched, non_stop, require_acks>>

FullPacket(bufs) ==
    \E contents \in bufs :
        /\ Alive
        /\ Len(conn.wchan) <= MaxWire
        /\ Len(conn.last_packet) + Len(contents) <= MaxBody
        /\ Do("full_packet", contents, full_packet(conn, contents))
        /\ mark' = IF res' = "panic" THEN mark ELSE Len(conn.wchan)
        /\ body' = IF res' = "panic" THEN body ELSE contents
        /\ UNCHANGED <<dispatched, non_stop, require_acks>>

DisableAcking ==
    /\ Alive
    /\ Do("disable_acking", <<>>, disable_acking(conn))
    /\ UNCHANGED <<mark, body, dispatched, non_stop, require_acks>>

Interrupt ==
    /\ Alive
    /\ Len(conn.wchan) <= MaxWire
    /\ Do("interrupt", <<>>, interrupt(conn))
    /\ UNCHANGED <<mark, body, dispatched, non_stop, require_acks>>

ReadPacket ==
    \E checked \in BOOLEAN :
        /\ Alive
        /\ Len(conn.wchan) <= MaxWire + MaxBody
        /\ Do("read_packet", <<>>, read_packet(conn, checked))
        /\ UNCHANGED <<mark, body, dispatched, non_stop, require_acks>>

\* The client owns a connection made with is_client = true.
ReadPacketWithRetries ==
    \E handler_fails \in BOOLEAN, checked \in BOOLEAN :
        LET o == read_packet_with_retries(conn, <<>>, handler_fails, checked) IN
        /\ Alive
        /\ conn.is_client
        /\ Len(conn.wchan) <= MaxWire + MaxBody
        /\ Do("read_packet_with_retries", handler_fails, o)
        /\ dispatched' = o.disp
        /\ UNCHANGED <<mark, body, non_stop, require_acks>>

\* The peer sends a burst once the previous one has been read.
Feed(bursts) ==
    \E burst \in bursts :
        /\ Alive
        /\ conn.rchan = <<>>
        /\ conn' = [conn EXCEPT !.rchan = burst]
        /\ Env("feed", burst)
        /\ UNCHANGED <<mark, body, dispatched, non_stop, require_acks>>

\* The peer takes the bytes written so far off the wire.
DrainAnywhere ==
    /\ Alive
    /\ conn.wchan # <<>>
    /\ conn' = [conn EXCEPT !.wchan = <<>>]
    /\ Env("drain", <<>>)
    /\ mark' = 0
    /\ UNCHANGED <<body, dispatched, non_stop, require_acks>>

\* The peer takes the bytes written so far off the wire, between packets.
Drain ==
    /\ conn.in_packet = NotInPacket
    /\ DrainAnywhere

\* The writer behind wchan gets into a state where it takes only room more
\* bytes, or gets out of it.
Choke(rooms) ==
    \E room \in rooms :
        /\ Alive
        /\ conn.wroom # room
        /\ conn' = [conn EXCEPT !.wroom = room]
        /\ Env("choke", room)
        /\ UNCHANGED <<mark, body, dispatched, non_stop, require_acks>>

\* Every operation in any order, on short inputs.
Next ==
    \/ SetMaximumRetries({None, Some(0)})
    \/ StartPacket
    \/ StartNotificationPacket
    \/ WriteAll({qTfP})
    \/ WriteBinary({<<Hash>>})
    \/ FinishPacket
    \/ FullPacket({<<97>>})
    \/ DisableAcking
    \/ Interrupt
    \/ ReadPacket
    \/ ReadPacketWithRetries
    \/ Feed({<<Plus>>, <<Minus>>, GoodFrame, BadFrame, NotifFrame \o BadFrame \o GoodFrame})
    \/ Drain

Spec == Init /\ [][Next]_vars

\* The sending side alone, with every body, retry cap and run of acks.
NextSend ==
    \/ SetMaximumRetries(RetryCaps)
    \/ StartPacket
    \/ StartNotificationPacket
    \/ WriteAll(WriteBufs)
    \/ FinishPacket
    \/ FullPacket(WriteBufs)
    \/ DisableAcking
    \/ Feed(AckBursts)
    \/ Drain

\* No sending operation reads is_client; the sender is taken to be a client.
InitSend == Init /\ conn.is_client

SpecSend == InitSend /\ [][NextSend]_vars

\* write_binary alone, on every short buffer.
NextBin ==
    \/ StartPacket
    \/ WriteBinary(BinBufs)
    \/ FinishPacket
    \/ DisableAcking
    \/ Feed({<<Plus>>})
    \/ Drain

SpecBin == Init /\ [][NextBin]_vars

\* Every body writer, inside and outside a packet.
NextBody ==
    \/ StartPacket
    \/ StartNotificationPacket
    \/ WriteAll({qTfP})
    \/ WriteBinary({<<Hash>>})
    \/ WriteHex({<<10>>})
    \/ WriteShortThreadId({ProcessId(Id_Any, Id_Any), ProcessId(Id_All, Id_Any)})
    \/ FinishPacket
    \/ DisableAcking
    \/ Feed({<<Plus>>, <<Minus>>})
    \/ Drain

SpecBody == InitSend /\ [][NextBody]_vars

\* Bodies with run-length encoding: "0", "*", the repeat byte " " (three
\* copies) and a repeat byte below the bias of 29.
RleBodies == SeqsUpTo({48, Star, 32, RleBias - 1}, MaxRle)

\* A Normal packet with the body given and its checksum.
RleFrame(wire) == <<Dollar>> \o wire \o <<Hash>> \o Hex2(SumBytes(wire))

\* A new connection with one such packet to read; arg remembers its body.
InitRle ==
    /\ \E wire \in RleBodies, is_client \in BOOLEAN :
          /\ conn = new(RleFrame(wire), <<>>, is_client)
          /\ arg = wire
    /\ op = "new"
    /\ res = "Ok"
    /\ ret = <<>>
    /\ got = <<>>
    /\ sent = <<>>
    /\ mark = 0
    /\ body = <<>>
    /\ dispatched = <<>>
    /\ non_stop = FALSE
    /\ require_acks = FALSE

\* What the body loop hands on to the rest of read_packet.
BodyOutcome(b) == Outcome(b.c, b.res, <<b.contents, b.checksum>>)

\* read_packet reads the packet that waits.
ReadWaitingPacket ==
    \E checked \in BOOLEAN :
        /\ op = "new"
        /\ Do("read_packet", arg, read_packet(conn, checked))
        /\ UNCHANGED <<mark, body, dispatched, non_stop, require_acks>>

\* The body loop of read_packet alone, entered as read_packet enters it
\* behind the start byte.
ReadBodyLoop ==
    \E checked \in BOOLEAN :
        /\ op = "new"
        /\ Do("read_body", arg, BodyOutcome(ReadBody(read_char(conn).c, <<>>, 0, Dollar, checked)))
        /\ UNCHANGED <<mark, body, dispatched, non_stop, require_acks>>

\* A run-length encoded packet read whole, and by the body loop alone.
NextRle ==
    \/ ReadWaitingPacket
    \/ ReadBodyLoop

SpecRle == InitRle /\ [][NextRle]_vars

\* The retry caps of the ack exchange: None and every cap below MaxAcks.
AckCaps == {None} \cup {Some(m) : m \in 0..(MaxAcks - 1)}

\* What the peer may send while a packet waits for its ack: every run of "+",
\* "-" and "x" one longer than the largest cap can take.
AckRuns == SeqsUpTo({Plus, Minus, 120}, MaxAcks + 1) \ {<<>>}

\* The ack exchange of finish_packet against every such peer.
NextAck ==
    \/ SetMaximumRetries(AckCaps)
    \/ StartPacket
    \/ StartNotificationPacket
    \/ WriteAll({qTfP})
    \/ FinishPacket
    \/ DisableAcking
    \/ Feed(AckRuns)
    \/ Drain

SpecAck == InitSend /\ [][NextAck]_vars

\* The framing operations and interrupt over a writer that may take only part
\* of a buffer and then fail.
NextFail ==
    \/ SetMaximumRetries({Some(0)})
    \/ StartPacket
    \/ StartNotificationPacket
    \/ WriteAll({qTfP})
    \/ FinishPacket
    \/ DisableAcking
    \/ Interrupt
    \/ Feed({<<Plus>>, <<Minus>>})
    \/ Drain
    \/ Choke(Rooms)

SpecFail == InitSend /\ [][NextFail]_vars

----------------------------------------------------------------------------
(* The client: a GdbRspClient over its own connection, its operations in   *)
(* any order, a server that acks and replies, and a writer that may fail.  *)

InitClient ==
    /\ conn = GdbRspClient(<<>>, <<>>).conn
    /\ non_stop = GdbRspClient(<<>>, <<>>).non_stop
    /\ require_acks = GdbRspClient(<<>>, <<>>).require_acks
    /\ op = "new"
    /\ arg = <<>>
    /\ res = "Ok"
    /\ ret = <<>>
    /\ got = <<>>
    /\ sent = <<>>
    /\ mark = 0
    /\ body = <<>>
    /\ dispatched = <<>>

\* The GdbRspClient in the current state.
Client == [conn |-> conn, non_stop |-> non_stop, require_acks |-> require_acks]

\* The notification handler and the build an operation runs with.
Handler(handler_fails, checked) ==
    [disp |-> <<>>, handler_fails |-> handler_fails, checked |-> checked]

\* A client operation may be called.
Ready ==
    /\ Alive
    /\ Len(conn.wchan) <= MaxWire
    /\ Len(conn.last_packet) <= MaxStale

\* The bytes of a request between its start byte and its "#".
RequestBody(s) ==
    LET end == IF \A i \in 1..Len(s) : s[i] # Hash THEN Len(s) + 1
               ELSE CHOOSE i \in 1..Len(s) : s[i] = Hash /\ \A j \in 1..(i - 1) : s[j] # Hash
    IN SubSeq(s, 2, end - 1)

\* The step in which the client operation name, called with a, has outcome o.
DoClient(name, a, o) ==
    /\ Do(name, a, Outcome(o.cl.conn, o.res, o.val))
    /\ non_stop' = o.cl.non_stop
    /\ require_acks' = o.cl.require_acks
    /\ dispatched' = o.disp
    /\ mark' = Len(conn.wchan)
    /\ body' = RequestBody(sent')

Startup ==
    \E handler_fails \in BOOLEAN, checked \in BOOLEAN :
        /\ Ready
        /\ DoClient("startup", <<>>, startup(Client, Handler(handler_fails, checked)))

ExtendedMode ==
    \E handler_fails \in BOOLEAN, checked \in BOOLEAN :
        /\ Ready
        /\ DoClient("extended_mode", <<>>, extended_mode(Client, Handler(handler_fails, checked)))

Detach(pids) ==
    \E pid \in {None} \cup {Some(p) : p \in pids}, big_endian \in BOOLEAN,
       handler_fails \in BOOLEAN, checked \in BOOLEAN :
        /\ Ready
        /\ DoClient("detach", pid, detach(Client, pid, big_endian, Handler(handler_fails, checked)))

QueryStopReason ==
    /\ Ready
    /\ DoClient("query_stop_reason", <<>>, query_stop_reason(Client, Handler(FALSE, FALSE)))

ReadMemory ==
    \E addr \in {16}, length \in {1}, handler_fails \in BOOLEAN, checked \in BOOLEAN :
        /\ Ready
        /\ DoClient("read_memory", <<addr, length>>,
                    read_memory(Client, addr, length, Handler(handler_fails, checked)))

ReadRegister ==
    \E register \in {0} :
        /\ Ready
        /\ DoClient("read_register", register, read_register(Client, register, Handler(FALSE, FALSE)))

Attach(pids) ==
    \E pid \in pids, big_endian \in BOOLEAN :
        /\ Ready
        /\ DoClient("attach", pid, attach(Client, pid, big_endian, Handler(FALSE, FALSE)))

Kill(pids) ==
    \E pid \in pids, big_endian \in BOOLEAN :
        /\ Ready
        /\ DoClient("kill", pid, kill(Client, pid, big_endian, Handler(FALSE, FALSE)))

SetSoftwareBreakpoint ==
    \E addr \in {16}, kind \in {None, Some(4)}, handler_fails \in BOOLEAN, checked \in BOOLEAN :
        /\ Ready
        /\ DoClient("set_software_breakpoint", <<addr, kind>>,
                    set_software_breakpoint(Client, addr, kind, Handler(handler_fails, checked)))

SetNonstop ==
    \E state \in BOOLEAN, handler_fails \in BOOLEAN, checked \in BOOLEAN :
        /\ Ready
        /\ DoClient("set_nonstop", state, set_nonstop(Client, state, Handler(handler_fails, checked)))

NextClient ==
    \/ Startup
    \/ ExtendedMode
    \/ Detach(ClientPids)
    \/ QueryStopReason
    \/ ReadMemory
    \/ ReadRegister
    \/ Attach(ClientPids)
    \/ Kill(ClientPids)
    \/ SetSoftwareBreakpoint
    \/ SetNonstop
    \/ Feed(ClientBursts)
    \/ DrainAnywhere
    \/ Choke(Rooms)

SpecClient == InitClient /\ [][NextClient]_vars

----------------------------------------------------------------------------
(* The functions of util.rs and parse.rs, each applied to its inputs.      *)

\* The step in which the function name, applied to a, returns v.
Apply(name, a, v) ==
    /\ op' = name
    /\ arg' = a
    /\ res' = "Ok"
    /\ ret' = v
    /\ got' = <<>>
    /\ sent' = <<>>
    /\ UNCHANGED <<conn, mark, body, dispatched, non_stop, require_acks>>

\* The functions and the inputs they are applied to.
ParseInputs ==
    {<<"decode_hex", seq>> : seq \in HexInputs}
        \cup {<<"write_thread_id", pid>> : pid \in ProcessIds}
        \cup {<<"parse_simple_reply", input>> : input \in ReplyInputs}
        \cup {<<"parse_stop_signal_full", input>> : input \in StopInputs}

\* A client connection has a packet open; a function and an input for it
\* have been chosen and nothing has run yet.
InitParse ==
    /\ conn = start_packet(new(<<>>, <<>>, TRUE)).c
    /\ op = "input"
    /\ arg \in ParseInputs
    /\ res = "Ok"
    /\ ret = <<>>
    /\ got = <<>>
    /\ sent = <<>>
    /\ mark = 0
    /\ body = <<>>
    /\ dispatched = <<>>
    /\ non_stop = FALSE
    /\ require_acks = FALSE

\* The chosen input is for the function name.
Chosen(name) == op = "input" /\ arg[1] = name

DecodeHex ==
    /\ Alive
    /\ Chosen("decode_hex")
    /\ Apply("decode_hex", arg[2], decode_hex(arg[2]))

\* The thread-id goes into the open packet.
WriteThreadId ==
    \E big_endian \in BOOLEAN :
        /\ Alive
        /\ Chosen("write_thread_id")
        /\ Do("write_thread_id", arg[2], write_thread_id(conn, arg[2], big_endian))
        /\ body' = body \o sent'
        /\ UNCHANGED <<mark, dispatched, non_stop, require_acks>>

\* The bytes write_thread_id put on the wire are parsed back.
ParseThreadId ==
    /\ Alive
    /\ op = "write_thread_id"
    /\ res = "Ok"
    /\ op' = "parse_thread_id"
    /\ res' = "Ok"
    /\ ret' = parse_thread_id(sent)
    /\ got' = sent
    /\ sent' = <<>>
    /\ UNCHANGED <<conn, arg, mark, body, dispatched, non_stop, require_acks>>

ParseSimpleReply ==
    /\ Alive
    /\ Chosen("parse_simple_reply")
    /\ Apply("parse_simple_reply", arg[2], parse_simple_reply(arg[2]))

ParseStopSignalFull ==
    /\ Alive
    /\ Chosen("parse_stop_signal_full")
    /\ Apply("parse_stop_signal_full", arg[2], parse_stop_signal_full(arg[2]))

NextParse ==
    \/ DecodeHex
    \/ WriteThreadId
    \/ ParseThreadId
    \/ ParseSimpleReply
    \/ ParseStopSignalFull

SpecParse == InitParse /\ [][NextParse]_vars

----------------------------------------------------------------------------
(* The round trip: a connection with acking disabled writes a packet, and  *)
(* a second connection with acking disabled reads the bytes it wrote.      *)

InitRT ==
    /\ \E is_client \in BOOLEAN : conn = disable_acking(new(<<>>, <<>>, is_client)).c
    /\ op = "disable_acking"
    /\ arg = <<>>
    /\ res = "Ok"
    /\ ret = <<>>
    /\ got = <<>>
    /\ sent = <<>>
    /\ mark = 0
    /\ body = <<>>
    /\ dispatched = <<>>
    /\ non_stop = FALSE
    /\ require_acks = FALSE

\* The bytes on the write channel since the last packet was started.
PacketWire == SubSeq(conn.wchan, mark + 1, Len(conn.wchan))

\* The writer is dropped; a second connection is made over the bytes of the
\* packet just finished, its acking is disabled and it reads a packet.
ReadBack ==
    \E is_client \in BOOLEAN, checked \in BOOLEAN :
        LET second == disable_acking(new(PacketWire, <<>>, is_client)).c
            o == read_packet(second, checked)
        IN /\ Alive
           /\ op = "finish_packet"
           /\ res = "Ok"
           /\ ~conn.acking
           /\ conn' = o.c
           /\ op' = "read_back"
           /\ arg' = PacketWire
           /\ res' = o.res
           /\ ret' = o.val
           /\ got' = SubSeq(PacketWire, 1, Len(PacketWire) - Len(o.c.rchan))
           /\ sent' = o.c.wchan
           /\ mark' = 0
           /\ UNCHANGED <<body, dispatched, non_stop, require_acks>>

NextRT ==
    \/ StartPacket
    \/ StartNotificationPacket
    \/ WriteAll(WriteBufs)
    \/ FinishPacket
    \/ ReadBack

SpecRT == InitRT /\ [][NextRT]_vars

----------------------------------------------------------------------------
(* Properties. *)

\* The read channel as it was before the last operation.
InputBefore == got \o conn.rchan

\* The sixteen lowercase hex digits.
LowerHexDigits == <<48, 49, 50, 51, 52, 53, 54, 55, 56, 57, 97, 98, 99, 100, 101, 102>>

\* A byte as two lowercase hex digits.
LowerHexPair(n) == <<LowerHexDigits[(n \div 16) + 1], LowerHexDigits[(n % 16) + 1]>>

RECURSIVE RepeatSeq(_, _)
\* n copies of the byte string s, one after the other.
RepeatSeq(s, n) == IF n <= 0 THEN <<>> ELSE s \o RepeatSeq(s, n - 1)

\* The input starts with k "-" bytes followed by "+".
NacksThenAck(input, k) ==
    /\ Len(input) >= k + 1
    /\ \A i \in 1..k : input[i] = Minus
    /\ input[k + 1] = Plus

\* The input starts with n "-" bytes.
Nacks(input, n) ==
    /\ Len(input) >= n
    /\ \A i \in 1..n : input[i] = Minus

\* What one retransmission of the open packet of c puts on the wire.
Retransmission(c) == <<c.in_packet>> \o c.last_packet \o <<Hash>> \o Hex2(c.checksum)

\* C1: with acking disabled, a finished packet is on the wire as its start
\* byte ("$" from start_packet, "%" from start_notification_packet), the body
\* written since the start, "#" and the two lowercase hex digits of the sum of
\* the body bytes modulo 256, and finishing it reads nothing; the body "qTfP"
\* gives exactly "$qTfP#7b".
C1_WireFormat ==
    /\ (op = "start_packet" /\ res = "Ok") => sent = <<Dollar>>
    /\ (op = "start_notification_packet" /\ res = "Ok") => sent = <<Percent>>
    /\ (op \in {"finish_packet", "full_packet"} /\ res = "Ok" /\ ~conn.acking) =>
          /\ got = <<>>
          /\ PacketWire[1] \in {Dollar, Percent}
          /\ op = "full_packet" => PacketWire[1] = Dollar
          /\ PacketWire = <<PacketWire[1]>> \o body \o <<Hash>> \o LowerHexPair(SumBytes(body))
          /\ (body = qTfP /\ PacketWire[1] = Dollar) =>
                 PacketWire = <<36, 113, 84, 102, 80, 35, 55, 98>>

\* C1 happens: "qTfP" was written between start_packet and finish_packet with
\* acking disabled.
C1_Witness ==
    /\ op = "finish_packet"
    /\ res = "Ok"
    /\ ~conn.acking
    /\ body = qTfP
    /\ PacketWire = <<36, 113, 84, 102, 80, 35, 55, 98>>

\* C2: acking is true initially; it never goes from false to true, and it
\* changes only in a disable_acking step.
C2_AckingMonotonic ==
    conn.acking /\ [][/\ conn'.acking => conn.acking
                      /\ conn'.acking # conn.acking => op' = "disable_acking"]_vars

\* C2 happens: an operation ran after disable_acking and acking is still off.
C2_Witness == ~conn.acking /\ op = "full_packet" /\ res = "Ok"

\* C3: once acking is disabled, finish_packet (alone or inside full_packet)
\* succeeds after writing the trailer without reading a byte, only a read
\* operation consumes input, and a read operation writes nothing.
C3_NoAcksAfterDisable ==
    ~conn.acking =>
        /\ (op \in {"finish_packet", "full_packet"} /\ res # "panic") => (res = "Ok" /\ got = <<>>)
        /\ (op = "finish_packet" /\ res # "panic") => sent = <<Hash>> \o LowerHexPair(conn.checksum)
        /\ op \in {"read_packet", "read_packet_with_retries"} => sent = <<>>
        /\ op \notin {"read_packet", "read_packet_with_retries"} => got = <<>>

\* C3 happens: a packet was finished with acking disabled while an ack byte
\* was waiting on the read channel, and the byte is still there.
C3_Witness ==
    /\ ~conn.acking
    /\ op = "finish_packet"
    /\ res = "Ok"
    /\ conn.rchan \in {<<Plus>>, <<Minus>>}

\* C4: in acking mode, when the peer answers k "-" and then "+", and
\* max_retries is None or at least k, finish_packet reads exactly those k + 1
\* bytes, sends the trailer and then exactly k retransmissions, and returns Ok.
C4_AckRetry ==
    [][\A k \in 0..(MaxRetry + 1) :
          (/\ op' = "finish_packet"
           /\ res' # "panic"
           /\ conn.acking
           /\ NacksThenAck(conn.rchan, k)
           /\ (conn.max_retries = None \/ conn.max_retries[1] >= k))
          => /\ res' = "Ok"
             /\ got' = SubSeq(conn.rchan, 1, k + 1)
             /\ sent' = <<Hash>> \o Hex2(conn.checksum) \o RepeatSeq(Retransmission(conn), k)]_vars

\* C4 happens: the packet "$a#61" was refused twice and then acknowledged
\* under max_retries = Some(2); it is on the wire three times.
C4_Witness ==
    /\ op = "finish_packet"
    /\ res = "Ok"
    /\ conn.acking
    /\ conn.max_retries = Some(2)
    /\ got = <<Minus, Minus, Plus>>
    /\ PacketWire = RepeatSeq(<<Dollar, 97, Hash, 54, 49>>, 3)

\* C5: in acking mode with max_retries = Some(m), when the peer sends m + 1
\* "-", finish_packet reads exactly those, sends the trailer and exactly m
\* retransmissions, nothing after the last "-", and returns TooManyRetries.
C5_RetryCap ==
    [][\A m \in 0..MaxRetry :
          (/\ op' = "finish_packet"
           /\ res' # "panic"
           /\ conn.acking
           /\ conn.max_retries = Some(m)
           /\ Nacks(conn.rchan, m + 1))
          => /\ res' = "TooManyRetries"
             /\ got' = Repeat(Minus, m + 1)
             /\ sent' = <<Hash>> \o Hex2(conn.checksum) \o RepeatSeq(Retransmission(conn), m)
             /\ conn'.wchan = conn.wchan \o sent']_vars

\* C5 happens: three "-" under max_retries = Some(2) ended in TooManyRetries
\* with the packet "$a#61" on the wire three times.
C5_Witness ==
    /\ op = "finish_packet"
    /\ res = "TooManyRetries"
    /\ conn.max_retries = Some(2)
    /\ got = <<Minus, Minus, Minus>>
    /\ PacketWire = RepeatSeq(<<Dollar, 97, Hash, 54, 49>>, 3)

\* C6: read_packet skips to the first "$" or "%" and returns the type and
\* the bytes up to the next "#": fed "$E01#a6" it returns (Normal, "E01"), and
\* fed a notification followed by other frames it returns (Notification,
\* "E01") and leaves the other frames unread.
C6_ReadPacketFrame ==
    /\ (op = "read_packet" /\ InputBefore = GoodFrame) =>
           (res = "Ok" /\ ret = <<"Normal", E01>>)
    /\ (op = "read_packet" /\ InputBefore = NotifFrame \o BadFrame \o GoodFrame) =>
           (res = "Ok" /\ ret = <<"Notification", E01>> /\ conn.rchan = BadFrame \o GoodFrame)

\* C7: the bytes of a packet written with acking disabled, read by a second
\* connection with acking disabled, give back the packet type and the body.
C7_RoundTrip ==
    op = "read_back" =>
        (res = "Ok" /\ ret = <<IF arg[1] = Dollar THEN "Normal" ELSE "Notification", body>>)

\* C8: in acking mode read_packet answers a Normal packet with one ack byte,
\* "+" and Ok when the checksum matches, "-" and InvalidChecksum when it does
\* not, reads no further packet, and answers a notification with nothing.
C8_ReadAcks ==
    (op = "read_packet" /\ conn.acking) =>
        /\ InputBefore = GoodFrame => (res = "Ok" /\ sent = <<Plus>>)
        /\ InputBefore = BadFrame => (res = "InvalidChecksum" /\ sent = <<Minus>>)
        /\ InputBefore = NotifFrame \o BadFrame \o GoodFrame =>
               (res = "Ok" /\ sent = <<>> /\ got = NotifFrame)

\* C9: read_packet_with_retries never returns InvalidChecksum; fed a
\* notification, a Normal packet with a bad checksum and a good Normal packet,
\* it hands the notification to the handler once and returns the body of the
\* Normal packet, or returns the handler's error.
C9_ReadWithRetries ==
    op = "read_packet_with_retries" =>
        /\ res # "InvalidChecksum"
        /\ (InputBefore = NotifFrame \o BadFrame \o GoodFrame /\ ~arg) =>
               (res = "Ok" /\ ret = E01 /\ dispatched = <<E01>>)
        /\ (InputBefore = NotifFrame \o BadFrame \o GoodFrame /\ arg) =>
               (res = "HandlerError" /\ dispatched = <<E01>>)

RECURSIVE Escaped(_)
\* A buffer with every reserved byte replaced by "}" and the byte XOR 0x20
\* (each of the four reserved bytes has bit 0x20 set, so XOR clears it).
Escaped(buf) ==
    IF buf = <<>> THEN <<>>
    ELSE (IF Head(buf) \in {36, 35, 125, 42}
          THEN <<125, Head(buf) - 32>>
          ELSE <<Head(buf)>>) \o Escaped(Tail(buf))

\* C10: write_binary sends each byte of the buffer in order, a reserved byte
\* as "}" and the byte XOR 0x20 and any other byte unchanged, and nothing
\* else; the single byte 0x23 goes out as 0x7D 0x03.
C10_WriteBinaryEscapes ==
    (op = "write_binary" /\ res = "Ok") =>
        /\ sent = Escaped(arg)
        /\ arg = <<35>> => sent = <<125, 3>>

\* The bytes "0".."9", "a".."f" and "A".."F".
HexBytes == (48..57) \cup (97..102) \cup (65..70)

\* The digit a hex byte stands for: its place among "0123456789abcdef", an
\* upper-case letter counting as its lower-case one.
DigitOf(b) ==
    LET lower == IF b \in 65..70 THEN b + 32 ELSE b
    IN (CHOOSE i \in 1..16 : LowerHexDigits[i] = lower) - 1

RECURSIVE Base16(_)
\* The number a string of hex bytes denotes in base 16.
Base16(seq) ==
    IF seq = <<>> THEN 0
    ELSE DigitOf(Head(seq)) * 16 ^ (Len(seq) - 1) + Base16(Tail(seq))

\* C18: decode_hex returns None exactly when some byte of the input is not in
\* [0-9a-fA-F]; otherwise it returns the base-16 value of the digits, leading
\* zeros ignored and both cases alike; "000a" gives 10 and "f01" gives 3841.
C18_DecodeHex ==
    op = "decode_hex" =>
        /\ ret = None <=> (\E i \in 1..Len(arg) : arg[i] \notin HexBytes)
        /\ ret # None => ret = Some(Base16(arg))
        /\ arg = <<48, 48, 48, 97>> => ret = Some(10)
        /\ arg = <<102, 48, 49>> => ret = Some(3841)

\* C18 happens: decode_hex was applied to "000a" and gave 10.
C18_Witness == op = "decode_hex" /\ arg = <<48, 48, 48, 97>> /\ ret = Some(10)

RECURSIVE HexText(_)
\* A positive number in lowercase hex without leading zeros.
HexText(n) ==
    IF n = 0 THEN <<>> ELSE HexText(n \div 16) \o <<LowerHexDigits[(n % 16) + 1]>>

\* An Id as the wire shows it: a number in hex, "-1" for All, "0" for Any.
IdText(id) ==
    IF id.id = "Id" THEN HexText(id.val)
    ELSE IF id.id = "All" THEN <<45, 49>>
    ELSE <<48>>

\* C11: for every ProcessId whose pid and tid are each Specific(n > 0), All or
\* Any, write_thread_id emits "p", the pid, "." and the tid (a number as
\* lowercase hex without leading zeros, All as "-1", Any as "0"), and
\* parse_thread_id applied to those bytes returns the same ProcessId.
C11_ThreadIdRoundTrip ==
    op = "parse_thread_id" =>
        /\ got = <<112>> \o IdText(arg.pid) \o <<46>> \o IdText(arg.tid)
        /\ ret.kind = "Done"
        /\ ret.rest = <<>>
        /\ ret.val = arg

\* The round trip does hold for the pid 0x10000010 with the tid Any.
ThreadIdRoundTripHolds ==
    /\ op = "parse_thread_id"
    /\ arg = ProcessId(Id(268435472), Id_Any)
    /\ got = <<112, 49, 48, 48, 48, 48, 48, 49, 48, 46, 48>>
    /\ ret = Done(<<>>, arg)

\* parse_simple_reply alone: Ok for exactly "OK", ErrorPacket for exactly "E"
\* and two hex digits, Unsupported for exactly the empty body, and no result
\* for any other body.
ParseSimpleReplyMapping ==
    op = "parse_simple_reply" =>
        /\ (ret.kind = "Done" /\ ret.val = <<"Ok">>) <=> arg = <<79, 75>>
        /\ (ret.kind = "Done" /\ ret.val[1] = "ErrorPacket") <=>
               (Len(arg) = 3 /\ arg[1] = 69 /\ arg[2] \in HexBytes /\ arg[3] \in HexBytes)
        /\ (ret.kind = "Done" /\ ret.val[1] = "ErrorPacket") =>
               ret.val[2] = Base16(SubSeq(arg, 2, 3))
        /\ (ret.kind = "Done" /\ ret.val = <<"Unsupported">>) <=> arg = <<>>
        /\ ret.kind = "Done" => ret.val[1] \in {"Ok", "ErrorPacket", "Unsupported"}

\* C19: parse_stop_signal_full accepts "T05thread:p1.1;core:0;swbreak:" and
\* returns signal 5 with the values Thread(pid Specific 1, tid Specific 1),
\* Core(0), SoftwareBreak in that order.
C19_StopSignalFull ==
    (op = "parse_stop_signal_full" /\ arg = T05Example) =>
        /\ ret.kind = "Done"
        /\ ret.rest = <<>>
        /\ ret.val = <<5, <<Thread(ProcessId(Id(1), Id(1))), Core(0), SoftwareBreak>> >>

\* The same reply with two-digit values is accepted.
StopSignalTwoDigits ==
    /\ op = "parse_stop_signal_full"
    /\ arg = <<84, 48, 53, 116, 104, 114, 101, 97, 100, 58, 112, 49, 48, 46, 49, 48, 59, 99, 111, 114, 101, 58, 48, 48, 59, 115, 119, 98, 114, 101, 97, 107, 58>>
    /\ ret = Done(<<>>, <<5, <<Thread(ProcessId(Id(16), Id(16))), Core(0), SoftwareBreak>> >>)

\* The first transmission of the packet last started: its start byte, the
\* body written into it and the three bytes of its trailer.
FirstTransmission == SubSeq(PacketWire, 1, 1 + Len(body) + 3)

\* C20: in acking mode, whatever happened before (an earlier finish_packet
\* that returned TooManyRetries or an IO error included), everything
\* finish_packet puts on the wire after the first transmission of a packet is
\* a whole number of byte-for-byte copies of that first transmission.
C20_RetransmitIdentical ==
    (op \in {"finish_packet", "full_packet"} /\ res # "panic" /\ conn.acking) =>
        /\ Len(PacketWire) % Len(FirstTransmission) = 0
        /\ PacketWire = RepeatSeq(FirstTransmission, Len(PacketWire) \div Len(FirstTransmission))

\* A packet refused once and resent right after a clean start is on the wire
\* twice, byte for byte.
RetransmitAfterCleanStart ==
    /\ op = "finish_packet"
    /\ res = "Ok"
    /\ conn.acking
    /\ got = <<Minus, Plus>>
    /\ PacketWire = RepeatSeq(<<Dollar, 97, Hash, 54, 49>>, 2)

\* A connection in acking mode with no packet open, nothing left of an earlier
\* packet and a writer that works.
Healthy(c) == c.acking /\ c.in_packet = 0 /\ c.last_packet = <<>> /\ c.wroom = <<>>

\* A packet as it travels: start byte, body, "#", two lowercase hex digits.
Framed(start, contents) == <<start>> \o contents \o <<35>> \o LowerHexPair(SumBytes(contents))

\* The server's answer to a request: "+", then the reply with the body given.
AckThenReply(contents) == <<43>> \o Framed(36, contents)

\* The input ends with the bytes given.
EndsWith(input, tail) ==
    /\ Len(input) >= Len(tail)
    /\ SubSeq(input, Len(input) - Len(tail) + 1, Len(input)) = tail

\* The input starts with the bytes given.
StartsWith(input, head) ==
    /\ Len(input) >= Len(head)
    /\ SubSeq(input, 1, Len(head)) = head

RequestOps ==
    {"extended_mode", "detach", "query_stop_reason", "read_memory", "read_register",
     "attach", "kill", "set_software_breakpoint", "set_nonstop"}

\* How many Normal packets start in the bytes given.
NormalPackets(bytes) == Cardinality({i \in 1..Len(bytes) : bytes[i] = 36})

\* C13: a client operation that sent a request and returned Ok has consumed
\* exactly one Normal reply, and left no reply unread on the read channel.
C13_RequestReplyPairing ==
    (op \in RequestOps /\ res = "Ok") =>
        /\ NormalPackets(got) = 1
        /\ conn.rchan = <<>>

\* C14: no client operation panics, whatever reads and writes failed before.
C14_NoPanic == op \in RequestOps \cup {"startup"} => res # "panic"

\* C15: set_nonstop(state) sends "QNonStop:1" or "QNonStop:0"; when the server
\* acks and replies "OK" it returns Ok and non_stop is state; non_stop changes
\* in no other case.
C15_SetNonstop ==
    [][(op' = "set_nonstop" /\ res' # "panic") =>
          /\ Healthy(conn) => StartsWith(sent', Framed(36, <<81, 78, 111, 110, 83, 116, 111, 112, 58>> \o (IF arg' THEN <<49>> ELSE <<48>>)))
          /\ (Healthy(conn) /\ conn.rchan = AckThenReply(<<79, 75>>)) => (res' = "Ok" /\ non_stop' = arg')
          /\ res' # "Ok" => non_stop' = non_stop
          /\ non_stop' # non_stop => EndsWith(got', Framed(36, <<79, 75>>))]_vars

\* The client operations that end by reading a simple reply.
SimpleReplyOps == {"extended_mode", "detach", "set_software_breakpoint", "set_nonstop"}

\* C16: a client operation that reads a simple reply returns Ok for the reply
\* "OK", ErrorPacket(code) for "E" and two hex digits, Unsupported for the
\* empty reply and Unrecognized for any other ("OKx"), never a transport error.
C16_SimpleReplyMapping ==
    [][(op' \in SimpleReplyOps /\ Healthy(conn)) =>
          /\ conn.rchan = AckThenReply(<<79, 75>>) => res' = "Ok"
          /\ conn.rchan = AckThenReply(<<69, 48, 49>>) => (res' = "ErrorPacket" /\ ret' = <<1>>)
          /\ conn.rchan = AckThenReply(<<>>) => res' = "Unsupported"
          /\ conn.rchan = AckThenReply(<<79, 75, 120>>) => res' = "Unrecognized"
          /\ res' = "Ok" => EndsWith(got', Framed(36, <<79, 75>>))
          /\ res' = "Unsupported" => EndsWith(got', Framed(36, <<>>))]_vars

\* The transport errors of sending.
TransportErrors == {"IOError", "TooManyRetries"}

\* C17: when sending the request fails with a transport error, the operation
\* ends there: the connection is as the failed send left it, no reply is read,
\* and the result is that error.  startup returns no result, so for the
\* QStartNoAckMode handshake only the first part is asked.
C17_SendErrorReturned ==
    [][/\ op' = "extended_mode" =>
              LET s == full_packet(conn, <<33>>) IN
              s.res \in TransportErrors => (conn' = s.c /\ res' = RspError(s.res))
       /\ op' = "query_stop_reason" =>
              LET s == full_packet(conn, <<63>>) IN
              s.res \in TransportErrors => (conn' = s.c /\ res' = RspError(s.res))
       /\ op' = "set_nonstop" =>
              LET s == full_packet(conn, QNonStop(arg')) IN
              s.res \in TransportErrors => (conn' = s.c /\ res' = RspError(s.res))
       /\ (op' = "startup" /\ ~require_acks) =>
              LET s == full_packet(conn, QStartNoAckMode) IN
              s.res \in TransportErrors => conn' = s.c]_vars

\* C21: the retransmit buffer is bounded by the current packet exchange:
\* last_packet is empty whenever acking is false and whenever finish_packet
\* has returned Ok, and it is non-empty only while acking with a packet open.
C21_RetransmitBufferBounded ==
    /\ ~conn.acking => conn.last_packet = <<>>
    /\ (op = "finish_packet" /\ res = "Ok") => conn.last_packet = <<>>
    /\ conn.last_packet # <<>> => (conn.acking /\ conn.in_packet # NotInPacket)

\* The body writers of the connection.
BodyWrites == {"write_all", "write_binary", "write_hex", "write_thread_id"}

\* The operations that open a packet.
StartOps == {"start_packet", "start_notification_packet"}

\* C22: a body write made while no packet is open is rejected, sends no byte
\* and adds nothing to checksum or last_packet; in_packet is None exactly when
\* no start_*_packet is pending a finish_packet: a start sets it, finish_packet
\* resets it and no other step changes it.
C22_BodyWritesNeedOpenPacket ==
    [][/\ (op' \in BodyWrites /\ conn.in_packet = NotInPacket) =>
              /\ res' # "Ok"
              /\ sent' = <<>>
              /\ conn'.checksum = conn.checksum
              /\ conn'.last_packet = conn.last_packet
       /\ (op' \in StartOps /\ res' # "panic") => conn'.in_packet # NotInPacket
       /\ (op' = "finish_packet" /\ res' # "panic") => conn'.in_packet = NotInPacket
       /\ op' \notin StartOps \cup {"finish_packet"} => conn'.in_packet = conn.in_packet]_vars

\* The part of C22 about in_packet alone.
InPacketFrame ==
    [][/\ (op' \in StartOps /\ res' # "panic") => conn'.in_packet # NotInPacket
       /\ (op' = "finish_packet" /\ res' # "panic") => conn'.in_packet = NotInPacket
       /\ op' \notin StartOps \cup {"finish_packet"} => conn'.in_packet = conn.in_packet]_vars

\* write_binary and write_hex assert an open packet and write nothing without.
AssertingWritesRejected ==
    [][(op' \in {"write_binary", "write_hex"} /\ conn.in_packet = NotInPacket) =>
          (res' = "panic" /\ conn' = conn)]_vars

\* C23: with a packet open, checksum is the sum modulo 256 of the body bytes
\* the write channel accepted since the last start_*_packet, each counted once,
\* and, while acking, last_packet holds those same bytes in order.
C23_ChecksumInvariant ==
    conn.in_packet # NotInPacket =>
        /\ conn.checksum = SumBytes(body)
        /\ conn.acking => conn.last_packet = body

\* The part of C23 about checksum, and what holds of last_packet in its place:
\* it ends with the accepted body bytes.
ChecksumOfAcceptedBytes ==
    conn.in_packet # NotInPacket =>
        /\ conn.checksum = SumBytes(body)
        /\ conn.acking => EndsWith(conn.last_packet, body)

\* C24: framing and out-of-band bytes bypass the accumulator: start_*_packet
\* writes its start byte leaving last_packet unchanged and checksum reset to 0;
\* finish_packet writes the trailer and every retransmission leaving checksum
\* unchanged and last_packet unchanged until the '+' clears it; interrupt
\* leaves checksum, last_packet, in_packet and acking unchanged and writes
\* exactly the byte 0x03.
C24_FramingBypassesAccumulator ==
    [][/\ (op' \in StartOps /\ res' # "panic") =>
              /\ conn'.last_packet = conn.last_packet
              /\ conn'.checksum = 0
       /\ (op' = "finish_packet" /\ res' # "panic") =>
              /\ conn'.checksum = conn.checksum
              /\ \/ conn'.last_packet = conn.last_packet
                 \/ res' = "Ok" /\ conn'.last_packet = <<>>
       /\ (op' = "interrupt" /\ res' # "panic") =>
              /\ conn'.checksum = conn.checksum
              /\ conn'.last_packet = conn.last_packet
              /\ conn'.in_packet = conn.in_packet
              /\ conn'.acking = conn.acking
              /\ sent' = IF res' = "Ok" THEN <<InterruptByte>> ELSE <<>>]_vars

\* interrupt has written its byte on a connection whose checksum and
\* last_packet are not empty.
C24_Witness ==
    /\ op = "interrupt"
    /\ res = "Ok"
    /\ sent = <<InterruptByte>>
    /\ conn.acking
    /\ conn.checksum # 0
    /\ conn.last_packet # <<>>

\* C28: finish_packet closes the packet in every outcome: after Ok,
\* TooManyRetries or an IO error in_packet is None, and a start_packet,
\* start_notification_packet or interrupt that follows does not fail its
\* in_packet == None assertion.
C28_FinishAlwaysCloses ==
    [][/\ (op' = "finish_packet" /\ res' # "panic") => conn'.in_packet = NotInPacket
       /\ (op = "finish_packet" /\ op' \in StartOps \cup {"interrupt"}) => res' # "panic"]_vars

\* finish_packet has failed while writing the trailer, and the packet is closed.
C28_Witness ==
    /\ op = "finish_packet"
    /\ res = "IOError"
    /\ Len(sent) < 3
    /\ got = <<>>
    /\ conn.in_packet = NotInPacket

\* The input starts with k bytes other than "+" followed by "+".
RefusalsThenAck(input, k) ==
    /\ Len(input) >= k + 1
    /\ \A i \in 1..k : input[i] # Plus
    /\ input[k + 1] = Plus

\* The input starts with n bytes other than "+".
Refusals(input, n) ==
    /\ Len(input) >= n
    /\ \A i \in 1..n : input[i] # Plus

\* C25: in the ack loop of finish_packet every byte other than "+" ("x" as
\* much as "-") is a negative ack: k of them followed by "+" give k
\* retransmissions and Ok when max_retries allows k, m + 1 of them under
\* max_retries = Some(m) give m retransmissions and TooManyRetries, and the
\* loop ends with Ok only on "+".
C25_AnyOtherByteIsNak ==
    [][(op' = "finish_packet" /\ res' # "panic" /\ conn.acking) =>
          /\ \A k \in 0..MaxAcks :
                (/\ RefusalsThenAck(conn.rchan, k)
                 /\ (conn.max_retries = None \/ conn.max_retries[1] >= k))
                => /\ res' = "Ok"
                   /\ got' = SubSeq(conn.rchan, 1, k + 1)
                   /\ sent' = Trailer(conn) \o RepeatSeq(Retransmission(conn), k)
          /\ \A m \in 0..(MaxAcks - 1) :
                (conn.max_retries = Some(m) /\ Refusals(conn.rchan, m + 1))
                => /\ res' = "TooManyRetries"
                   /\ got' = SubSeq(conn.rchan, 1, m + 1)
                   /\ sent' = Trailer(conn) \o RepeatSeq(Retransmission(conn), m)
          /\ res' = "Ok" => (got' # <<>> /\ got'[Len(got')] = Plus)]_vars

\* C25 happens: the packet "$qTfP#7b" was answered "x" and then "+" under
\* max_retries = Some(1); it is on the wire twice.
C25_Witness ==
    /\ op = "finish_packet"
    /\ res = "Ok"
    /\ conn.acking
    /\ conn.max_retries = Some(1)
    /\ got = <<120, Plus>>
    /\ PacketWire = RepeatSeq(<<Dollar>> \o qTfP \o <<Hash, 55, 98>>, 2)

\* C27: notifications take no part in the ack handshake on the sending side:
\* finish_packet of a packet opened with start_notification_packet reads no
\* ack byte, also while acking is true, and completes with Ok.
C27_NotificationsNotAcked ==
    [][(op' = "finish_packet" /\ res' # "panic" /\ conn.in_packet = Percent) =>
          /\ got' = <<>>
          /\ res' = "Ok"]_vars

\* What holds in its place: a notification is finished without an ack once
\* acking is disabled, and a Normal packet never is while acking.
NotificationAckedLikeNormal ==
    [][(op' = "finish_packet" /\ res' # "panic") =>
          /\ ~conn.acking => (got' = <<>> /\ res' = "Ok")
          /\ (conn.acking /\ res' = "Ok") => got' # <<>>]_vars

\* C29: the ack exchange is bounded: under max_retries = Some(m) a call of
\* finish_packet in acking mode reads at most m + 1 ack bytes and puts the
\* packet on the wire at most m + 1 times (its first transmission, finished by
\* the trailer, and at most m retransmissions), whatever the peer sends; under
\* max_retries = None it never returns TooManyRetries, and it returns Ok
\* exactly when a "+" is among the bytes the peer sends.
C29_BoundedAckExchange ==
    [][(op' = "finish_packet" /\ res' # "panic" /\ conn.acking) =>
          /\ \A m \in 0..(MaxAcks - 1) :
                conn.max_retries = Some(m) =>
                    /\ Len(got') <= m + 1
                    /\ \E j \in 0..m :
                          sent' = Trailer(conn) \o RepeatSeq(Retransmission(conn), j)
          /\ conn.max_retries = None =>
                /\ res' # "TooManyRetries"
                /\ res' = "Ok" <=> (\E i \in 1..Len(conn.rchan) : conn.rchan[i] = Plus)]_vars

\* C29 happens: under max_retries = Some(1) the peer sent three refusals;
\* finish_packet read two of them, sent the packet twice and gave up.
C29_Witness ==
    /\ op = "finish_packet"
    /\ res = "TooManyRetries"
    /\ conn.max_retries = Some(1)
    /\ Len(got) = 2
    /\ Len(conn.rchan) = 1
    /\ PacketWire = RepeatSeq(<<Dollar>> \o qTfP \o <<Hash, 55, 98>>, 2)

RECURSIVE RleDecode(_, _)
\* The body a run-length encoded body stands for: "*" and a repeat byte R
\* stand for R - 29 more copies of the body byte before them.
RleDecode(wire, out) ==
    IF wire = <<>> THEN out
    ELSE IF Head(wire) = Star /\ Len(wire) >= 2
    THEN RleDecode(SubSeq(wire, 3, Len(wire)), out \o [i \in 1..(wire[2] - RleBias) |-> out[Len(out)]])
    ELSE RleDecode(Tail(wire), Append(out, Head(wire)))

RECURSIVE ProperRle(_, _)
\* Every "*" of the body follows a body byte and has a repeat byte of at
\* least 29 behind it; after_byte says the byte before is a body byte.
ProperRle(wire, after_byte) ==
    IF wire = <<>> THEN TRUE
    ELSE IF Head(wire) = Star
    THEN /\ after_byte
         /\ Len(wire) >= 2
         /\ wire[2] >= RleBias
         /\ ProperRle(SubSeq(wire, 3, Len(wire)), FALSE)
    ELSE ProperRle(Tail(wire), TRUE)

\* C26: read_packet expands run-length encoding only when is_client: on "*"
\* and a repeat byte R >= 29 it appends R - 29 copies of the byte before, so
\* the packet with body "0* " is returned as "0000"; the checksum it computes
\* covers "*" and R and not the copies, so the packet is acknowledged; on a
\* server connection "*" stays an ordinary body byte.
C26_RleExpansion ==
    [][(op' = "read_packet" /\ res' # "panic" /\ ProperRle(arg', FALSE)) =>
          /\ res' = "Ok"
          /\ ret' = <<"Normal", IF conn.is_client THEN RleDecode(arg', <<>>) ELSE arg'>>
          /\ sent' = <<Plus>>]_vars

\* What holds in its place: the body loop alone, entered behind the start
\* byte, expands as C26 says and sums the bytes as they were on the wire.
BodyLoopExpands ==
    [][(op' = "read_body" /\ ProperRle(arg', FALSE)) =>
          /\ res' = "Ok"
          /\ ret' = <<IF conn.is_client THEN RleDecode(arg', <<>>) ELSE arg', SumBytes(arg')>>]_vars

\* The smallest number of copies a wrapped run length gives: 256 + 0 - 29.
SmallestWrappedRun == 256 - RleBias

RepeatWrapsOnlyBelowBias ==
    [][(op' = "read_body" /\ (~conn.is_client \/ ProperRle(arg', FALSE))) =>
          /\ res' = "Ok"
          /\ Len(ret'[1]) < SmallestWrappedRun]_vars

\* C31: in the no-ack handshake the reply "OK" to QStartNoAckMode is read
\* under the ack rules: startup, answered "+" and "$OK#9a", writes the request
\* and then "+" for the reply and leaves acking false, acking never goes off
\* in startup without that "+" as the last byte written, and the packets
\* after the handshake are sent without waiting for an ack and read without
\* sending one.
C31_HandshakeReplyAcked ==
    [][/\ (op' = "startup" /\ Healthy(conn) /\ ~require_acks /\ conn.rchan = AckThenReply(<<79, 75>>)) =>
              /\ sent' = Framed(36, QStartNoAckMode) \o <<Plus>>
              /\ got' = AckThenReply(<<79, 75>>)
              /\ ~conn'.acking
       /\ (op' = "startup" /\ conn.acking /\ ~conn'.acking) =>
              /\ EndsWith(sent', <<Plus>>)
              /\ StartsWith(sent', Framed(36, QStartNoAckMode))
       /\ (/\ op' = "extended_mode"
           /\ ~conn.acking
           /\ conn.in_packet = NotInPacket
           /\ conn.wroom = None
           /\ conn.rchan = Framed(36, <<79, 75>>)) =>
              /\ sent' = Framed(36, <<33>>)
              /\ got' = Framed(36, <<79, 75>>)
              /\ res' = "Ok"]_vars

====
